---- MODULE Spec2Model ----
(***************************************************************************)
(* Tresto: iteration control core and snapshot store.                      *)
(*                                                                         *)
(* The module holds several independent parts of the program.  `comp'      *)
(* names the part a behaviour exercises; the variables of the other parts  *)
(* stay at their idle values, so the state space is the sum of the parts.  *)
(*                                                                         *)
(*   "graph"   LangGraphTestAgent.run and its router    (ai/agent/graph.py)*)
(*   "decide"  tool_decide_next_action   (tools/deside_next_action.py)     *)
(*   "html"    inspect_html_tool         (tools/html_inspect/__init__.py)  *)
(*   "pw"      playwright_iterate_cycle  (tools/playwright_iterate)        *)
(*   "store"   RecordingManager          (tools/inspect/recording.py)      *)
(***************************************************************************)
EXTENDS Integers, Sequences, FiniteSets, TLC

VARIABLES
    comp,            \* the part of the program this behaviour exercises
    \* ---- LangGraphTestAgent.run -------------------------------------
    max_iterations,  \* state["max_iterations"]
    iterations,      \* state["iterations"]
    has_code,        \* "current_test_code" in state
    run_result,      \* "none" (key absent), "pass" or "fail" (run.success)
    notes,           \* state.get("inspection_notes"): "" (absent/empty) or "text"
    gpc,             \* "graph" (inside ainvoke), "outer" (ainvoke returned),
                     \* "returned", "raised" (run left by an exception)
    failed,          \* a handler has raised during this run
    dispatches,      \* number of handler nodes executed so far
    lastRouted,      \* router value for which the last handler node was run
    probe,           \* result of a direct call of _decide_next, "none" before it
    \* ---- TestAgentState (state/__init__.py) and tool_decide_next_action
    recorded,        \* state.current_recording_code is not None
    last_decision,   \* state.last_decision, "None" before the first decision
    nmessages,       \* len(state.messages), the durable history
    dpc,             \* "call", "check" (head of the while loop), "returned", "handled"
    answer,          \* `decision': the stripped last line of the model's output
    ltail,           \* kind of the last message of the local copy `messages'
    calls,           \* completed calls of tool_decide_next_action
    \* ---- inspection sub-tasks (inspect_html_tool, playwright_iterate_cycle)
    local_messages,  \* len(state.local_messages), the scratch sequence
    ipc,             \* "entry", "loop", "report", "exit_ok", "exit_exc"
    rounds,          \* rounds of the sub-task's loop run so far
    last_command,    \* inspect_html_tool: the command of the last round,
                     \* "finish" (or done, complete), "other", "none" before
    \* ---- RecordingManager (tools/inspect/recording.py) ----------------
    html_snapshots,  \* keys of _sources.html_snapshots in insertion order
    screenshots,     \* keys of _sources.screenshots in insertion order
    time_range,      \* _time_range as <<start, end>>
    explicit_range,  \* the constructor was given time_range
    q,               \* the last query and its outcome
    \* ---- RecordingManager(trace_path): _load_sources_from_trace --------
    archive,         \* the file at trace_path: how it opens, the trace's lines
    loaded_html,     \* keys of the loaded html_snapshots in insertion order
    loaded_shots,    \* keys of the loaded screenshots in insertion order
    loaded_range,    \* _time_range of the constructed manager, <<>> before
    lpc,             \* "construct", "built" (constructor returned), "raised"
    \* ---- _execute_inspection_cycle (tools/playwright_iterate) ----------
    inspection_attempt,  \* the local counter of the while loop
    exploration_result,  \* the last round: "success", "finished" (the output
                         \* holds EXPLORATION_FINISHED), "failure"; "none" before
    final_output,        \* what the returned note is made of, "none" before
    cpc,                 \* "loop" (head of the while loop), "returned"
    \* ---- run_test (core/test, tools/run_test.py) ------------------------
    test_case,       \* what the test file and the browser do in this run
    called,          \* the operation that was called, "none" before
    last_run_result, \* <<>> (nothing produced) or <<r>>, r the TestRunResult
    tpc,             \* "call", "returned", "raised"
    \* ---- _iterate_test_command (commands/test/iterate.py) -------------
    agent_outcome,   \* what agent.run does in this invocation, "none" before
    report,          \* the panel or line printed last, "none" before
    report_path,     \* the printed report holds target_file_path
    mpc,             \* "start", "agent" (awaiting agent.run), "ended", "raised"
    \* ---- execute_html_exploration (html_inspect, playwright_iterate) ---
    engine,          \* "html_inspect" or "playwright_iterate": whose
                     \* execution.py runs the command
    command,         \* the command string, by its parts
    soup,            \* the parsed document
    soup_before,     \* the document when the command was issued
    xresult,         \* what the call gave: a string, None or an exception
    xpc,             \* "call", "returned", "raised"
    \* ---- _strip_markdown_code_fences (tools/generate.py, agent.py) ------
    text,            \* the model's response, a sequence of tokens
    stripped,        \* _strip_markdown_code_fences(text), <<>> before the call
    restripped,      \* _strip_markdown_code_fences of that result
    fpc,             \* "call", "returned", "again" (applied to its result)
    \* ---- ask_user (tools/ask_user.py) ----------------------------------
    ask_before,      \* state.messages when ask_user is called
    ask_messages,    \* state.messages of the state ask_user works on
    question,        \* <<>> or <<c>>, c the content of the model's reply
    ask_llm_calls,   \* calls of llm.ainvoke made by ask_user
    apc,             \* "call", "asking" (blocked in ask), "returned", "raised"
    \* ---- playwright_iterate_cycle (tools/playwright_iterate) ------------
    final_inspection_output, \* the words of the last inspection cycle's
                             \* output, <<>> before the first cycle has ended
    \* ---- Agent.process (ai/agent/agent.py) ----------------------------
    tool_calls,      \* result.tool_calls: what each called tool does
    conversation,    \* the messages this call has added to state.messages
    kpc,             \* "stream", "tools", "returned", "raised"
    \* ---- execute_playwright_code (tools/playwright_iterate) -----------
    code,            \* what the generated code does when it is executed
    playwright_result,  \* <<>> or <<r>>, r the PlaywrightExecutionResult
    iteration_context,  \* the context handed to the next iteration
    epc,             \* "call", "returned", "raised", "next" (next iteration)
    \* ---- _trim_content and the commands' outputs (html_inspect) -------
    trim_input,      \* the command and the lengths of what the document gives
    trim_output,     \* the lengths of the parts of the result
    zpc,             \* "call", "returned"
    \* ---- RecordingManager (tools/html_inspect/recording.py) -----------
    hs_html,         \* keys of _sources.html_snapshots
    hs_shots,        \* keys of _sources.screenshots
    hs_latest,       \* which of _latest_html, _latest_screenshot are given
    hs_range,        \* _time_range as <<start, end>>
    hq,              \* the last query and its outcome
    \* ---- BrowserRecorder (core/recorder.py) ---------------------------
    trestoActions,   \* window.trestoActions, the page's action buffer
    actions,         \* self.actions
    pushed,          \* user actions pushed in the page so far
    navigations,     \* navigation events handled so far
    bpc,             \* "sleep", "clear" (between the two evaluate calls)
    \* ---- TestAgentState.current_test_code (state/__init__.py) ---------
    test_instructions,  \* state.test_instructions, a sequence of tokens
    test_file,       \* the content of the test file, <<>> before the write
    written_code,    \* the value given to the setter
    read_code,       \* what the getter returned
    ypc              \* "write", "read", "done"

gvars == <<max_iterations, iterations, has_code, run_result, notes, gpc,
           failed, dispatches, lastRouted, probe>>

dvars == <<recorded, last_decision, nmessages, dpc, answer, ltail, calls>>

ivars == <<local_messages, ipc, rounds, last_command>>

svars == <<html_snapshots, screenshots, time_range, explicit_range, q>>

lvars == <<archive, loaded_html, loaded_shots, loaded_range, lpc>>

cvars == <<inspection_attempt, exploration_result, final_output, cpc>>

\* the parts added to the first four
rvars == <<test_case, called, last_run_result, tpc>>

ovars == <<lvars, cvars, rvars>>

mvars == <<agent_outcome, report, report_path, mpc>>

xvars == <<engine, command, soup, soup_before, xresult, xpc>>

fvars == <<text, stripped, restripped, fpc>>

avars == <<ask_before, ask_messages, question, ask_llm_calls, apc>>

pvars == <<final_inspection_output>>

kvars == <<tool_calls, conversation, kpc>>

evars == <<code, playwright_result, iteration_context, epc>>

tvars == <<trim_input, trim_output, zpc>>

hvars == <<hs_html, hs_shots, hs_latest, hs_range, hq>>

bvars == <<trestoActions, actions, pushed, navigations, bpc>>

yvars == <<test_instructions, test_file, written_code, read_code, ypc>>

\* Agent.process, execute_playwright_code, the output limits, the second
\* RecordingManager, BrowserRecorder and the test file accessors
wvars == <<kvars, evars, tvars, hvars, bvars, yvars>>

\* the parts of the commands, the exploration engines and the other tools
nvars == <<mvars, xvars, fvars, avars, pvars, wvars>>

vars == <<comp, gvars, dvars, ivars, svars, ovars, nvars>>

----------------------------------------------------------------------------
(* Idle values: the variables of a part no behaviour step touches          *)

\* the values of the graph variables while another part is exercised
GraphIdle ==
    /\ max_iterations = 0
    /\ iterations = 0
    /\ has_code = FALSE
    /\ run_result = "none"
    /\ notes = ""
    /\ gpc = "idle"
    /\ failed = FALSE
    /\ dispatches = 0
    /\ lastRouted = "none"
    /\ probe = "none"

\* the values of the decision variables while another part is exercised
DecideIdle ==
    /\ recorded = FALSE
    /\ last_decision = "None"
    /\ nmessages = 1
    /\ dpc = "idle"
    /\ answer = ""
    /\ ltail = "none"
    /\ calls = 0

\* no inspection sub-task has been started
InspectIdle ==
    /\ local_messages = 0
    /\ ipc = "idle"
    /\ rounds = 0
    /\ last_command = "none"

\* no RecordingManager has been constructed
NoQuery == [op |-> "none", arg |-> <<>>, raised |-> FALSE, err |-> "", val |-> <<>>]

StoreIdle ==
    /\ html_snapshots = <<>>
    /\ screenshots = <<>>
    /\ time_range = <<0, 0>>
    /\ explicit_range = FALSE
    /\ q = NoQuery

\* no RecordingManager is being constructed from a trace
LoadIdle ==
    /\ archive = [zip |-> "none", lines |-> <<>>]
    /\ loaded_html = <<>>
    /\ loaded_shots = <<>>
    /\ loaded_range = <<>>
    /\ lpc = "idle"

\* no inspection cycle is running
CycleIdle ==
    /\ inspection_attempt = 0
    /\ exploration_result = "none"
    /\ final_output = "none"
    /\ cpc = "idle"

\* no test is being run
RunTestIdle ==
    /\ test_case = [file_exists |-> FALSE, extracts |-> FALSE, setup |-> "ok",
                    test |-> "passes", capture |-> "ok"]
    /\ called = "none"
    /\ last_run_result = <<>>
    /\ tpc = "idle"

\* the iterate command is not running
IterateIdle ==
    /\ agent_outcome = "none"
    /\ report = "none"
    /\ report_path = FALSE
    /\ mpc = "idle"

\* no exploration command is being executed
ExploreIdle ==
    /\ engine = "none"
    /\ command = [verb |-> "", sel |-> "none",
                  depth |-> [kind |-> "absent", value |-> 0], balanced |-> TRUE]
    /\ soup = [classes |-> <<"main">>]
    /\ soup_before = [classes |-> <<"main">>]
    /\ xresult = [raised |-> FALSE, success |-> FALSE, kind |-> "none", depth |-> 0]
    /\ xpc = "idle"

\* no generated text is being stripped
FenceIdle ==
    /\ text = <<>>
    /\ stripped = <<>>
    /\ restripped = <<>>
    /\ fpc = "idle"

\* ask_user is not running
AskIdle ==
    /\ ask_before = <<>>
    /\ ask_messages = <<>>
    /\ question = <<>>
    /\ ask_llm_calls = 0
    /\ apc = "idle"

\* no inspection cycle of playwright_iterate_cycle has ended
OuterIdle ==
    /\ final_inspection_output = <<>>

\* Agent.process has not been called
ProcessIdle ==
    /\ tool_calls = <<>>
    /\ conversation = <<>>
    /\ kpc = "idle"

\* execute_playwright_code has not been called
ExecIdle ==
    /\ code = "none"
    /\ playwright_result = <<>>
    /\ iteration_context = "none"
    /\ epc = "idle"

\* no exploration output has been produced
TrimIdle ==
    /\ trim_input = [verb |-> "none", found |-> FALSE, selector |-> 0, body |-> 0]
    /\ trim_output = [fixed |-> 0, selector |-> 0, kind |-> "none", body |-> 0,
                      value |-> 0]
    /\ zpc = "idle"

NoHQuery ==
    [op |-> "none", arg |-> <<>>, raised |-> FALSE, err |-> "", src |-> "none", at |-> 0]

\* no manager of html_inspect has been built
HStoreIdle ==
    /\ hs_html = {}
    /\ hs_shots = {}
    /\ hs_latest = [html |-> FALSE, screenshot |-> FALSE]
    /\ hs_range = <<0, 0>>
    /\ hq = NoHQuery

\* no recording session is running
RecorderIdle ==
    /\ trestoActions = <<>>
    /\ actions = <<>>
    /\ pushed = 0
    /\ navigations = 0
    /\ bpc = "idle"

\* the test file accessors have not been used
CodeFileIdle ==
    /\ test_instructions = <<>>
    /\ test_file = <<>>
    /\ written_code = <<>>
    /\ read_code = <<>>
    /\ ypc = "idle"

\* the parts added last are idle
LaterIdle ==
    ProcessIdle /\ ExecIdle /\ TrimIdle /\ HStoreIdle /\ RecorderIdle /\ CodeFileIdle

\* the commands, the exploration engines and the other tools are idle
NewerIdle ==
    IterateIdle /\ ExploreIdle /\ FenceIdle /\ AskIdle /\ OuterIdle /\ LaterIdle

\* the parts added to the first four are idle
OtherIdle == LoadIdle /\ CycleIdle /\ RunTestIdle /\ NewerIdle

----------------------------------------------------------------------------
(* Bounds of the model                                                     *)

MaxIterBound == 2      \* max_iterations ranges over 0..MaxIterBound
MaxDispatches == 5     \* handler dispatches explored in one run
MaxCalls == 2          \* calls of tool_decide_next_action in one behaviour
MaxRounds == 3         \* loop rounds of one inspection sub-task
MaxExploreFails == 2   \* failed exploration attempts within one iteration
MaxTime == 2           \* snapshot timestamps range over 0..MaxTime
MaxSnaps == 2          \* documents plus images held by one store
MaxLines == 2          \* lines of the trace file in an archive
MaxText == 4           \* tokens of a free-form response
MaxContent == 2        \* tokens inside the fences of a one-block response
MaxDepthArg == 6       \* --depth values range over -1..MaxDepthArg
MaxToolCalls == 2      \* tool calls carried by one response
MaxSelector == 2       \* characters of a selector
MaxDoc == 2            \* document sizes range up to MaxDoc * 10000 characters
MaxPush == 3           \* actions the user performs in the page
MaxNav == 1            \* navigation events of the main frame
MaxInstr == 3          \* tokens of the instruction text
MaxCode == 2           \* tokens of the code given to the setter

----------------------------------------------------------------------------
(* tool_decide_next_action                                                 *)

\* state/__init__.py: class Decision(StrEnum)
Decision == {"record_user_input", "decide_next_action", "ask_user",
             "run_test", "modify_code", "finish"}

\* what the model's last line can be: every tag, and two strings that are no tag
Answers == Decision \cup {"inspect", ""}

\* available_actions with decide_next_action left in
available_actions_all(rec) == Decision

\* available_actions as computed at the head of tool_decide_next_action
available_actions(rec) ==
    LET base == Decision \ {"decide_next_action"}
    IN  IF rec THEN base \cup {"record_user_input"} ELSE base

\* copy the messages, append the prompt, stream the reasoning, take its last line
decide_stream ==
    /\ comp = "decide"
    /\ dpc = "call"
    /\ ltail' = "reasoning"
    /\ \E a \in Answers : answer' = a
    /\ dpc' = "check"
    /\ UNCHANGED <<comp, recorded, last_decision, nmessages, calls>>
    /\ UNCHANGED <<gvars, ivars, svars, ovars, nvars>>

\* while True: the answer is available; set last_decision, break, append, return
decide_accept ==
    /\ comp = "decide"
    /\ dpc = "check"
    /\ answer \in available_actions(recorded)
    /\ last_decision' = answer
    /\ nmessages' = nmessages + 1
    /\ dpc' = "returned"
    /\ calls' = calls + 1
    /\ UNCHANGED <<comp, recorded, answer, ltail>>
    /\ UNCHANGED <<gvars, ivars, svars, ovars, nvars>>

\* a retry that appends the correction message to state.messages itself
decide_retry_on_messages ==
    /\ comp = "decide"
    /\ dpc = "check"
    /\ answer \notin available_actions(recorded)
    /\ ltail' = "correction"
    /\ nmessages' = nmessages + 1
    /\ \E a \in Answers : answer' = a
    /\ UNCHANGED <<comp, recorded, last_decision, dpc, calls>>
    /\ UNCHANGED <<gvars, ivars, svars, ovars, nvars>>

\* while True: ValueError; append the correction message, stream the retry
decide_retry ==
    /\ comp = "decide"
    /\ dpc = "check"
    /\ answer \notin available_actions(recorded)
    /\ ltail' = "correction"
    /\ \E a \in Answers : answer' = a
    /\ UNCHANGED <<comp, recorded, last_decision, nmessages, dpc, calls>>
    /\ UNCHANGED <<gvars, ivars, svars, ovars, nvars>>

\* tool_record_user_input: the handler of record_user_input
tool_record_user_input ==
    /\ comp = "decide"
    /\ dpc = "returned"
    /\ last_decision = "record_user_input"
    /\ recorded' = TRUE
    /\ nmessages' = nmessages + 1
    /\ dpc' = "handled"
    /\ UNCHANGED <<comp, last_decision, answer, ltail, calls>>
    /\ UNCHANGED <<gvars, ivars, svars, ovars, nvars>>

\* the orchestrator asks for the next decision
next_decision ==
    /\ comp = "decide"
    /\ \/ dpc = "handled"
       \/ dpc = "returned" /\ last_decision \notin {"record_user_input", "finish"}
    /\ calls < MaxCalls
    /\ dpc' = "call"
    /\ ltail' = "none"
    /\ UNCHANGED <<comp, recorded, last_decision, nmessages, answer, calls>>
    /\ UNCHANGED <<gvars, ivars, svars, ovars, nvars>>

DecideNext ==
    \/ decide_stream
    \/ decide_accept
    \/ decide_retry
    \/ tool_record_user_input
    \/ next_decision

----------------------------------------------------------------------------
(* Inspection sub-tasks and the scratch sequence                           *)

\* state.temporary_messages(): entering the scope, the scratch sequence is empty
temporary_messages_enter(local) == 0

\* state.temporary_messages(): leaving the scope on any path clears the scratch
temporary_messages_exit(local) == 0

\* inspect_html_tool up to the loop: without captured HTML it appends an error
\* message and returns
inspect_html_start ==
    /\ comp = "html"
    /\ ipc = "entry"
    /\ \E has_soup \in BOOLEAN :
          IF has_soup
          THEN ipc' = "loop" /\ nmessages' = nmessages
          ELSE ipc' = "exit_ok" /\ nmessages' = nmessages + 1
    /\ UNCHANGED <<comp, local_messages, rounds, last_command>>
    /\ UNCHANGED <<recorded, last_decision, dpc, answer, ltail, calls>>
    /\ UNCHANGED <<gvars, svars, ovars, nvars>>

\* one round whose command is not finish and whose result does not hold the
\* text EXPLORATION_FINISHED: the result adds two scratch messages, an
\* exception of the command adds one
inspect_html_round ==
    /\ comp = "html"
    /\ ipc = "loop"
    /\ rounds < MaxRounds
    /\ \E executed \in BOOLEAN :
          local_messages' = local_messages + (IF executed THEN 2 ELSE 1)
    /\ rounds' = rounds + 1
    /\ last_command' = "other"
    /\ UNCHANGED <<comp, ipc>>
    /\ UNCHANGED <<gvars, dvars, svars, ovars, nvars>>

\* the round of the finish command (or done, complete): html_inspect's
\* execute_html_exploration returns None (execution.py 216-217). Either
\* printing Panel(None) raises, or it does not and `"EXPLORATION_FINISHED"
\* in None' raises after the two appends; the except branch appends the
\* error message and the loop goes on
inspect_html_finish ==
    /\ comp = "html"
    /\ ipc = "loop"
    /\ rounds < MaxRounds
    /\ \E printed \in BOOLEAN :
          local_messages' = local_messages + (IF printed THEN 3 ELSE 1)
    /\ rounds' = rounds + 1
    /\ last_command' = "finish"
    /\ UNCHANGED <<comp, ipc>>
    /\ UNCHANGED <<gvars, dvars, svars, ovars, nvars>>

\* a round whose result holds the text EXPLORATION_FINISHED, such as the
\* parsing error that quotes the unknown command EXPLORATION_FINISHED or a
\* view of a document with this text: the result is appended, the loop
\* ends, the scratch messages move to the durable history
inspect_html_sentinel ==
    /\ comp = "html"
    /\ ipc = "loop"
    /\ nmessages' = nmessages + local_messages + 2
    /\ local_messages' = 0
    /\ ipc' = "exit_ok"
    /\ last_command' = "other"
    /\ UNCHANGED <<comp, rounds>>
    /\ UNCHANGED <<recorded, last_decision, dpc, answer, ltail, calls>>
    /\ UNCHANGED <<gvars, svars, ovars, nvars>>

\* llm.astream raises while the command is requested: the exception leaves
\* inspect_html_tool
inspect_html_raises ==
    /\ comp = "html"
    /\ ipc = "loop"
    /\ ipc' = "exit_exc"
    /\ UNCHANGED <<comp, local_messages, rounds, last_command>>
    /\ UNCHANGED <<gvars, dvars, svars, ovars, nvars>>

\* playwright_iterate_cycle enters `with state.temporary_messages()'
playwright_iterate_start ==
    /\ comp = "pw"
    /\ ipc = "entry"
    /\ local_messages' = temporary_messages_enter(local_messages)
    /\ ipc' = "loop"
    /\ UNCHANGED <<comp, rounds, last_command>>
    /\ UNCHANGED <<gvars, dvars, svars, ovars, nvars>>

\* a failed iteration that writes its message to the durable history
playwright_iteration_failed_durable ==
    /\ comp = "pw"
    /\ ipc = "loop"
    /\ rounds < MaxRounds
    /\ nmessages' = nmessages + 1
    /\ rounds' = rounds + 1
    /\ UNCHANGED <<comp, ipc, last_command, local_messages>>
    /\ UNCHANGED <<recorded, last_decision, dpc, answer, ltail, calls>>
    /\ UNCHANGED <<gvars, svars, ovars, nvars>>

\* an iteration whose playwright code fails: one scratch message, next iteration
playwright_iteration_failed ==
    /\ comp = "pw"
    /\ ipc = "loop"
    /\ rounds < MaxRounds
    /\ local_messages' = local_messages + 1
    /\ rounds' = rounds + 1
    /\ UNCHANGED <<comp, ipc, last_command>>
    /\ UNCHANGED <<gvars, dvars, svars, ovars, nvars>>

\* the commands the model may have issued last in an inspection cycle
LastCommands == {"show", "expand #finish-button", "text #continue"}

\* _execute_inspection_cycle's final_output, as words: the tool output of the
\* finish command (lines 172-176), the reflection that holds FINISH: (107-110),
\* the text after the loop has run out of attempts (201-202)
CycleOutputs ==
    {<<"Command:", "finish", "EXPLORATION_FINISHED">>,
     <<"Reflection", "after", "attempts:", "FINISH:">>}
    \cup {<<"Exploration", "reached", "maximum", "attempts.", "Last",
            "command:", c>> : c \in LastCommands}

\* the words w with "FINISH" in w.upper()
HoldsFINISH == {"finish", "EXPLORATION_FINISHED", "FINISH:", "expand #finish-button"}

\* _check_iteration_decision: "FINISH" in inspection_output.upper() gives
\* FINISH, every other output gives CONTINUE
_check_iteration_decision(inspection_output) ==
    IF \E i \in 1..Len(inspection_output) : inspection_output[i] \in HoldsFINISH
    THEN "FINISH"
    ELSE "CONTINUE"

\* an iteration whose playwright code succeeds: the inspection cycle adds one
\* scratch message per failed exploration, the iteration one more; then the
\* iteration decision on the cycle's output
playwright_iteration_inspected ==
    /\ comp = "pw"
    /\ ipc = "loop"
    /\ rounds < MaxRounds
    /\ \E fails \in 0..MaxExploreFails :
          local_messages' = local_messages + fails + 1
    /\ rounds' = rounds + 1
    /\ \E out \in CycleOutputs :
          /\ final_inspection_output' = out
          /\ ipc' = IF _check_iteration_decision(out) = "FINISH"
                    THEN "report" ELSE "loop"
    /\ UNCHANGED <<comp, last_command>>
    /\ UNCHANGED <<gvars, dvars, svars, ovars, mvars, xvars, fvars, avars, wvars>>

\* the report is generated inside the scope; after the scope two durable
\* messages are appended
playwright_iterate_report ==
    /\ comp = "pw"
    /\ ipc = "report"
    /\ local_messages' = temporary_messages_exit(local_messages)
    /\ nmessages' = nmessages + 2
    /\ ipc' = "exit_ok"
    /\ UNCHANGED <<comp, rounds, last_command>>
    /\ UNCHANGED <<recorded, last_decision, dpc, answer, ltail, calls>>
    /\ UNCHANGED <<gvars, svars, ovars, nvars>>

\* a collaborator raises inside the scope: the exception leaves the scope
playwright_iterate_raises ==
    /\ comp = "pw"
    /\ ipc \in {"loop", "report"}
    /\ local_messages' = temporary_messages_exit(local_messages)
    /\ ipc' = "exit_exc"
    /\ UNCHANGED <<comp, rounds, last_command>>
    /\ UNCHANGED <<gvars, dvars, svars, ovars, nvars>>

InspectNext ==
    \/ inspect_html_start
    \/ inspect_html_round
    \/ inspect_html_finish
    \/ inspect_html_sentinel
    \/ inspect_html_raises
    \/ playwright_iterate_start
    \/ playwright_iteration_failed
    \/ playwright_iteration_inspected
    \/ playwright_iterate_report
    \/ playwright_iterate_raises

----------------------------------------------------------------------------
(* RecordingManager                                                        *)

Times == 0..MaxTime

\* timestamps a caller may ask for: the stored ones and one beyond each end
QueryTimes == (0 - 1)..(MaxTime + 1)

\* a timestamp argument: <<>> is None, <<t>> is the datetime t
QueryArgs == {<<>>} \cup {<<t>> : t \in QueryTimes}

Range(seq) == {seq[i] : i \in 1..Len(seq)}

\* the key orders of a dict with keys in S
KeyOrders(S) ==
    {seq \in UNION {[1..n -> S] : n \in 0..Cardinality(S)} :
        \A i, j \in 1..Len(seq) : i # j => seq[i] # seq[j]}

SetMin(S) == CHOOSE x \in S : \A y \in S : x <= y

SetMax(S) == CHOOSE x \in S : \A y \in S : x >= y

Abs(x) == IF x < 0 THEN 0 - x ELSE x

\* a time_range that ends at the earliest stored timestamp
sources_time_range_earliest(html, shots, now) ==
    IF html = <<>> /\ shots = <<>>
    THEN <<now, now>>
    ELSE <<SetMin(Range(html) \cup Range(shots)), SetMin(Range(html) \cup Range(shots))>>

\* RecordingSources.time_range; `now' is datetime.now(UTC)
sources_time_range(html, shots, now) ==
    IF html = <<>> /\ shots = <<>>
    THEN <<now, now>>
    ELSE <<SetMin(Range(html) \cup Range(shots)), SetMax(Range(html) \cup Range(shots))>>

\* RecordingManager.__init__: the range given, else the range of the sources
manager_time_range(given, html, shots, now) ==
    IF given # <<>> THEN given[1] ELSE sources_time_range(html, shots, now)

Return(v) == [raised |-> FALSE, err |-> "", val |-> v]

Raise(e) == [raised |-> TRUE, err |-> e, val |-> <<>>]

\* validate_timestamp that reads None as the start of the range
validate_timestamp_none_start(arg) ==
    LET ts == IF arg = <<>> THEN time_range[1] ELSE arg[1]
    IN  [ok |-> ~(ts < time_range[1] \/ ts > time_range[2]), ts |-> ts]

\* validate_timestamp that clamps into the range instead of raising
validate_timestamp_clamp(arg) ==
    LET ts == IF arg = <<>> THEN time_range[2] ELSE arg[1]
    IN  [ok |-> TRUE,
         ts |-> IF ts < time_range[1] THEN time_range[1]
                ELSE IF ts > time_range[2] THEN time_range[2] ELSE ts]

\* validate_timestamp: ok is FALSE where the code raises ValueError
validate_timestamp(arg) ==
    LET ts == IF arg = <<>> THEN time_range[2] ELSE arg[1]
    IN  [ok |-> ~(ts < time_range[1] \/ ts > time_range[2]), ts |-> ts]

\* keyfunc(t) without its second component: distance only
keyfunc_distance_only(t, ts) == <<Abs(t - ts), 0>>

\* keyfunc(t) of get_html_at / get_screenshot_at
keyfunc(t, ts) == <<Abs(t - ts), IF t <= ts THEN 0 ELSE 1>>

\* tuple comparison a < b
KeyLess(a, b) == a[1] < b[1] \/ (a[1] = b[1] /\ a[2] < b[2])

\* min(keys) without key=: the smallest stored timestamp
closest_smallest(keys, ts) == SetMin(Range(keys))

\* min(keys, key=keyfunc): the first key, in iteration order, that no key beats
closest(keys, ts) ==
    LET i == CHOOSE i \in 1..Len(keys) :
                /\ \A j \in 1..Len(keys) : ~KeyLess(keyfunc(keys[j], ts), keyfunc(keys[i], ts))
                /\ \A j \in 1..(i - 1) : KeyLess(keyfunc(keys[i], ts), keyfunc(keys[j], ts))
    IN  keys[i]

\* the lookup returning None where no snapshot of the kind is stored
lookup_or_none(kind, keys, arg, none_error) ==
    LET v == validate_timestamp(arg)
    IN  IF ~v.ok THEN Raise("ValueError")
        ELSE IF v.ts \in Range(keys) THEN Return(<<kind, v.ts>>)
        ELSE IF keys # <<>> THEN Return(<<kind, closest(keys, v.ts)>>)
        ELSE Return(<<>>)

\* the lookup shared by get_html_at and get_screenshot_at, exact match only
lookup_exact(kind, keys, arg, none_error) ==
    LET v == validate_timestamp(arg)
    IN  IF ~v.ok THEN Raise("ValueError")
        ELSE IF v.ts \in Range(keys) THEN Return(<<kind, v.ts>>)
        ELSE Raise("ValueError")

\* the lookup shared by get_html_at and get_screenshot_at
lookup(kind, keys, arg, none_error) ==
    LET v == validate_timestamp(arg)
    IN  IF ~v.ok THEN Raise("ValueError")
        ELSE IF v.ts \in Range(keys) THEN Return(<<kind, v.ts>>)
        ELSE IF keys # <<>> THEN Return(<<kind, closest(keys, v.ts)>>)
        ELSE Raise(none_error)

\* RecordingManager.get_html_at; the document stored at t is <<"html", t>>
get_html_at(arg) == lookup("html", html_snapshots, arg, "ValueError")

\* RecordingManager.get_screenshot_at; the image stored at t is <<"image", t>>
get_screenshot_at(arg) == lookup("image", screenshots, arg, "ValueError")

\* RecordingManager.__getitem__
getitem(arg) ==
    LET v == validate_timestamp(arg)
    IN  IF ~v.ok THEN Raise("ValueError") ELSE Return(<<"snapshot", v.ts>>)

\* RecordingManager.get_stats: <<"stats", time_start, time_end, duration_s,
\* num_html_snapshots, num_screenshots>>
get_stats ==
    LET d == time_range[2] - time_range[1]
    IN  Return(<<"stats", time_range[1], time_range[2], IF d < 0 THEN 0 ELSE d,
                 Len(html_snapshots), Len(screenshots)>>)

\* RecordingManager.validate_timestamp as a caller sees it: ts or ValueError
validate_timestamp_result(arg) ==
    LET v == validate_timestamp(arg)
    IN  IF ~v.ok THEN Raise("ValueError") ELSE Return(<<"ts", v.ts>>)

Answered(op, arg, res) ==
    [op |-> op, arg |-> arg, raised |-> res.raised, err |-> res.err, val |-> res.val]

\* a get_html_at that stores the document it found under the asked timestamp
get_html_at_call_caching ==
    /\ comp = "store"
    /\ \E arg \in QueryArgs :
          /\ q' = Answered("get_html_at", arg, get_html_at(arg))
          /\ html_snapshots' =
                IF validate_timestamp(arg).ok /\ html_snapshots # <<>>
                   /\ validate_timestamp(arg).ts \notin Range(html_snapshots)
                THEN Append(html_snapshots, validate_timestamp(arg).ts)
                ELSE html_snapshots
    /\ UNCHANGED <<comp, screenshots, time_range, explicit_range>>
    /\ UNCHANGED <<gvars, dvars, ivars, ovars, nvars>>

\* a caller asks for the document at a timestamp
get_html_at_call ==
    /\ comp = "store"
    /\ \E arg \in QueryArgs : q' = Answered("get_html_at", arg, get_html_at(arg))
    /\ UNCHANGED <<comp, html_snapshots, screenshots, time_range, explicit_range>>
    /\ UNCHANGED <<gvars, dvars, ivars, ovars, nvars>>

\* a caller asks for the image at a timestamp
get_screenshot_at_call ==
    /\ comp = "store"
    /\ \E arg \in QueryArgs : q' = Answered("get_screenshot_at", arg, get_screenshot_at(arg))
    /\ UNCHANGED <<comp, html_snapshots, screenshots, time_range, explicit_range>>
    /\ UNCHANGED <<gvars, dvars, ivars, ovars, nvars>>

\* a caller indexes the manager: manager[timestamp]
getitem_call ==
    /\ comp = "store"
    /\ \E arg \in QueryArgs : q' = Answered("getitem", arg, getitem(arg))
    /\ UNCHANGED <<comp, html_snapshots, screenshots, time_range, explicit_range>>
    /\ UNCHANGED <<gvars, dvars, ivars, ovars, nvars>>

\* a caller validates a timestamp
validate_timestamp_call ==
    /\ comp = "store"
    /\ \E arg \in QueryArgs :
          q' = Answered("validate_timestamp", arg, validate_timestamp_result(arg))
    /\ UNCHANGED <<comp, html_snapshots, screenshots, time_range, explicit_range>>
    /\ UNCHANGED <<gvars, dvars, ivars, ovars, nvars>>

\* a caller asks for the statistics
get_stats_call ==
    /\ comp = "store"
    /\ q' = Answered("get_stats", <<>>, get_stats)
    /\ UNCHANGED <<comp, html_snapshots, screenshots, time_range, explicit_range>>
    /\ UNCHANGED <<gvars, dvars, ivars, ovars, nvars>>

StoreNext ==
    \/ get_html_at_call
    \/ get_screenshot_at_call
    \/ getitem_call
    \/ validate_timestamp_call
    \/ get_stats_call

----------------------------------------------------------------------------
(* RecordingManager(trace_path): trace ingestion                           *)

\* A numeric timestamp m * 10^e with one decimal digit m, as [m, e].
\* The exponents reach the values to_dt compares with and those of the
\* example trace (1000 and 1000000000000).
Exponents == {3, 11, 12, 14, 17}

Raw == [m : {1, 2}, e : Exponents]

\* x > 10^k for x = m * 10^e with 1 <= m <= 9
Above(x, k) == x.e > k \/ (x.e = k /\ x.m > 1)

\* x / 10^k for x = m * 10^e with e >= k
Div(x, k) == [m |-> x.m, e |-> x.e - k]

\* a < b for a = m * 10^e, b = n * 10^f with 1 <= m, n <= 9
SciLess(a, b) == a.e < b.e \/ (a.e = b.e /\ a.m < b.m)

\* to_dt that takes every value for seconds
to_dt_seconds(x) == x

\* to_dt(val): the datetime, in seconds since the epoch
to_dt(x) ==
    IF Above(x, 17) THEN Div(x, 9)
    ELSE IF Above(x, 14) THEN Div(x, 6)
    ELSE IF Above(x, 11) THEN Div(x, 3)
    ELSE x

\* choose_event_dt(ev_obj): <<>> is None; ts is the event's numeric time field
choose_event_dt(ev) == IF ev.ts = <<>> THEN <<>> ELSE <<to_dt(ev.ts[1])>>

\* One line of the trace file:
\*   "garbage"    not JSON
\*   "scalar"     JSON, but no object (a number, a string, a list)
\*   "html"       an event object with snapshot.html
\*   "image"      an event object with the sha1 of a readable resource
\*   "bad_image"  an event object with the sha1 of an unreadable resource
Lines ==
    [kind : {"garbage", "scalar"}, ts : {<<>>}]
    \cup [kind : {"html", "image", "bad_image"}, ts : {<<>>} \cup {<<r>> : r \in Raw}]

LineSeqs == UNION {[1..n -> Lines] : n \in 0..MaxLines}

\* what trace_path can name
Archives ==
    {[zip |-> z, lines |-> <<>>] : z \in {"unreadable", "no_trace"}}
    \cup {[zip |-> "trace", lines |-> l] : l \in LineSeqs}

IsGarbage(line) == line.kind = "garbage"

IsParsed(line) == ~IsGarbage(line)

\* the NDJSON loop: events.append(json.loads(line)), undecodable lines skipped
parse_lines(lines) == SelectSeq(lines, IsParsed)

\* d[k] = v on a dict with keys `keys'
DictPut(keys, k) == IF k \in Range(keys) THEN keys ELSE Append(keys, k)

Loaded(html, shots) == [raised |-> FALSE, err |-> "", html |-> html, shots |-> shots]

LoadRaised(e) == [raised |-> TRUE, err |-> e, html |-> <<>>, shots |-> <<>>]

\* the loop `for ev in events' from event i on
RECURSIVE ingest(_, _, _, _)
ingest(events, i, html, shots) ==
    IF i > Len(events) THEN Loaded(html, shots)
    ELSE LET ev == events[i]
             ts == choose_event_dt(ev)
         IN  IF ev.kind = "scalar" THEN LoadRaised("AttributeError")
             ELSE IF ev.kind = "html" /\ ts # <<>>
                  THEN ingest(events, i + 1, DictPut(html, ts[1]), shots)
             ELSE IF ev.kind = "image" /\ ts # <<>>
                  THEN ingest(events, i + 1, html, DictPut(shots, ts[1]))
             ELSE ingest(events, i + 1, html, shots)

\* _load_sources_from_trace(trace_path)
load_sources_from_trace(a) ==
    IF a.zip # "trace" THEN Loaded(<<>>, <<>>)
    ELSE ingest(parse_lines(a.lines), 1, <<>>, <<>>)

\* datetime.now(UTC), in seconds since the epoch
Now == [m |-> 2, e |-> 9]

SciMin(S) == CHOOSE x \in S : \A y \in S : x = y \/ SciLess(x, y)

SciMax(S) == CHOOSE x \in S : \A y \in S : x = y \/ SciLess(y, x)

\* __init__ without time_range: the range of the loaded sources, else (now, now)
inferred_time_range(html, shots) ==
    IF html = <<>> /\ shots = <<>>
    THEN <<Now, Now>>
    ELSE <<SciMin(Range(html) \cup Range(shots)), SciMax(Range(html) \cup Range(shots))>>

\* RecordingManager(trace_path=archive)
manager_init_from_trace ==
    /\ comp = "load"
    /\ lpc = "construct"
    /\ LET res == load_sources_from_trace(archive)
       IN  IF res.raised
           THEN /\ lpc' = "raised"
                /\ UNCHANGED <<loaded_html, loaded_shots, loaded_range>>
           ELSE /\ lpc' = "built"
                /\ loaded_html' = res.html
                /\ loaded_shots' = res.shots
                /\ loaded_range' = inferred_time_range(res.html, res.shots)
    /\ UNCHANGED <<comp, archive>>
    /\ UNCHANGED <<gvars, dvars, ivars, svars, cvars, rvars, nvars>>

LoadNext == manager_init_from_trace

----------------------------------------------------------------------------
(* _execute_inspection_cycle                                               *)

MAX_EXPLORATION_ATTEMPTS == 150

REFLECTION_INTERVAL == 10

\* the test before generate_progress_reflection, on the incremented counter
reflection_due(attempt) ==
    attempt > 1 /\ (attempt - 1) % REFLECTION_INTERVAL = 0

\* One pass through the body of the while loop, the counter already tested:
\* `reflection' is what generate_progress_reflection answers when it is
\* asked, `result' what execute_html_exploration_command does with the
\* command the model wrote.
round_body ==
    /\ inspection_attempt' = inspection_attempt + 1
    /\ \E reflection \in {"FINISH:", "CONTINUE:", ""},
          result \in {"success", "finished", "failure"} :
          IF reflection_due(inspection_attempt + 1) /\ reflection = "FINISH:"
          THEN /\ cpc' = "returned"
               /\ final_output' = "reflection"
               /\ UNCHANGED <<exploration_result, local_messages>>
          ELSE /\ exploration_result' = result
               /\ cpc' = IF result = "finished" THEN "returned" ELSE "loop"
               /\ final_output' = IF result = "finished" THEN "tool_output" ELSE final_output
               /\ local_messages' = IF result = "failure"
                                    THEN local_messages + 1 ELSE local_messages
    /\ UNCHANGED <<comp, ipc, rounds, last_command>>
    /\ UNCHANGED <<gvars, dvars, svars, lvars, rvars, nvars>>

\* the loop as `while True': a round whatever the counter is
exploration_round_uncapped ==
    /\ comp = "cycle"
    /\ cpc = "loop"
    /\ round_body

\* while inspection_attempt < MAX_EXPLORATION_ATTEMPTS: one round
exploration_round ==
    /\ comp = "cycle"
    /\ cpc = "loop"
    /\ inspection_attempt < MAX_EXPLORATION_ATTEMPTS
    /\ round_body

\* the loop condition fails: the forced finish after the loop
exploration_cap ==
    /\ comp = "cycle"
    /\ cpc = "loop"
    /\ ~(inspection_attempt < MAX_EXPLORATION_ATTEMPTS)
    /\ cpc' = "returned"
    /\ final_output' = "max_attempts"
    /\ UNCHANGED <<comp, inspection_attempt, exploration_result>>
    /\ UNCHANGED <<gvars, dvars, ivars, svars, lvars, rvars, nvars>>

CycleNext ==
    \/ exploration_round
    \/ exploration_cap

----------------------------------------------------------------------------
(* run_test                                                                *)

\* What one run meets: the test file exists or not, extract_test_function
\* returns the function or raises BaseTestExtractionError, the browser setup
\* works or raises, the test function passes or raises, page.content() and
\* the screenshot after it work or raise.
TestCases ==
    [file_exists : BOOLEAN, extracts : BOOLEAN, setup : {"ok", "raises"},
     test : {"passes", "raises"}, capture : {"ok", "raises"}]

\* a TestRunResult; traceback "" is None
TestRunResult(success, tb) ==
    [type |-> "TestRunResult", success |-> success, traceback |-> tb]

\* core/test/run.py: run_test(test_path)
run_test(tc) ==
    IF ~tc.extracts THEN TestRunResult(FALSE, "message")
    ELSE IF tc.setup = "raises" THEN TestRunResult(FALSE, "traceback")
    ELSE IF tc.test = "raises" THEN TestRunResult(FALSE, "traceback")
    ELSE IF tc.capture = "raises" THEN TestRunResult(FALSE, "traceback")
    ELSE TestRunResult(TRUE, "")

\* core/test/__init__.py: run_test_code_in_file(test_file_path); the value of
\* run_test is unpacked as a pair inside the try
run_test_code_in_file(tc) ==
    IF ~tc.file_exists THEN TestRunResult(FALSE, "Test file not found")
    ELSE IF run_test(tc).type = "tuple"
         THEN TestRunResult(TRUE, "")
         ELSE TestRunResult(FALSE, "traceback")

\* the parameters of run_test_code_in_file
run_test_code_in_file_params == 1

\* the positional arguments tools/run_test.py passes to it
run_test_tool_arguments == 2

\* tools/run_test.py: run_test(state)
tool_run_test ==
    /\ comp = "runtest"
    /\ tpc = "call"
    /\ called' = "tool"
    /\ IF run_test_tool_arguments # run_test_code_in_file_params
       THEN /\ tpc' = "raised"
            /\ UNCHANGED <<last_run_result, nmessages>>
       ELSE /\ tpc' = "returned"
            /\ last_run_result' = <<run_test_code_in_file(test_case)>>
            /\ nmessages' = nmessages + 1
    /\ UNCHANGED <<comp, test_case>>
    /\ UNCHANGED <<recorded, last_decision, dpc, answer, ltail, calls>>
    /\ UNCHANGED <<gvars, ivars, svars, lvars, cvars, nvars>>

\* a caller runs run_test_code_in_file(test_file_path)
run_test_code_in_file_call ==
    /\ comp = "runtest"
    /\ tpc = "call"
    /\ called' = "run_test_code_in_file"
    /\ tpc' = "returned"
    /\ last_run_result' = <<run_test_code_in_file(test_case)>>
    /\ UNCHANGED <<comp, test_case>>
    /\ UNCHANGED <<gvars, dvars, ivars, svars, lvars, cvars, nvars>>

\* a caller runs core run_test(test_path)
run_test_call ==
    /\ comp = "runtest"
    /\ tpc = "call"
    /\ called' = "run_test"
    /\ tpc' = "returned"
    /\ last_run_result' = <<run_test(test_case)>>
    /\ UNCHANGED <<comp, test_case>>
    /\ UNCHANGED <<gvars, dvars, ivars, svars, lvars, cvars, nvars>>

RunTestNext ==
    \/ tool_run_test
    \/ run_test_code_in_file_call
    \/ run_test_call

----------------------------------------------------------------------------
(* _iterate_test_command (commands/test/iterate.py)                        *)

\* what agent.run can do: return a state without run_result, with a passing
\* or a failing one, or leave by an exception (graph.py has no try/except)
AgentOutcomes == {"no_result", "pass", "fail", "raised"}

\* iterate.py 47-55: the existence check; a missing file prints one line that
\* holds the path and returns, otherwise the agent is started
iterate_check_file ==
    /\ comp = "iterate"
    /\ mpc = "start"
    /\ \E exists \in BOOLEAN :
        IF exists
        THEN /\ mpc' = "agent"
             /\ UNCHANGED <<report, report_path>>
        ELSE /\ report' = "missing"
             /\ report_path' = TRUE
             /\ mpc' = "ended"
    /\ UNCHANGED <<comp, agent_outcome>>
    /\ UNCHANGED <<gvars, dvars, ivars, svars, ovars, xvars, fvars, avars, pvars, wvars>>

\* iterate.py 57-80: agent.run returned; state.get("run_result") picks the
\* green panel (result.success) or the red one, both end with "Saved to"
iterate_agent_returns ==
    /\ comp = "iterate"
    /\ mpc = "agent"
    /\ \E o \in AgentOutcomes \ {"raised"} :
        /\ agent_outcome' = o
        /\ report' = IF o = "pass" THEN "passed" ELSE "failed"
    /\ report_path' = TRUE
    /\ mpc' = "ended"
    /\ UNCHANGED comp
    /\ UNCHANGED <<gvars, dvars, ivars, svars, ovars, xvars, fvars, avars, pvars, wvars>>

\* iterate.py 57-64: agent.run raises; the await is not inside a try, the
\* exception leaves _iterate_test_command before any panel is printed
iterate_agent_raises ==
    /\ comp = "iterate"
    /\ mpc = "agent"
    /\ agent_outcome' = "raised"
    /\ mpc' = "raised"
    /\ UNCHANGED <<comp, report, report_path>>
    /\ UNCHANGED <<gvars, dvars, ivars, svars, ovars, xvars, fvars, avars, pvars, wvars>>

IterateNext ==
    \/ iterate_check_file
    \/ iterate_agent_returns
    \/ iterate_agent_raises

----------------------------------------------------------------------------
(* ask_user (tools/ask_user.py)                                            *)

\* the durable histories ask_user is called on
Histories ==
    {<<>>,
     <<[type |-> "system", content |-> "s"]>>,
     <<[type |-> "system", content |-> "s"], [type |-> "human", content |-> "h"]>>}

\* what the model asks and what the human answers
Questions == {"q1", "q2"}

Replies == {"a1", "a2"}

\* the two appends in the other order
ask_user_appends_answer_first(messages, q_content, ans) ==
    messages \o <<[type |-> "human", content |-> ans],
                  [type |-> "ai", content |-> q_content]>>

\* ask_user.py 36-37: AIMessage(question.content), then HumanMessage(answer)
ask_user_appends(messages, q_content, ans) ==
    messages \o <<[type |-> "ai", content |-> q_content],
                  [type |-> "human", content |-> ans]>>

\* ask_user.py 20-32: the prompt is built and llm.ainvoke is awaited once; the
\* prompt message goes into the call's argument, not into state.messages
ask_user_formulate ==
    /\ comp = "ask"
    /\ apc = "call"
    /\ \E c \in Questions : question' = <<c>>
    /\ ask_llm_calls' = ask_llm_calls + 1
    /\ apc' = "asking"
    /\ UNCHANGED <<comp, ask_before, ask_messages>>
    /\ UNCHANGED <<gvars, dvars, ivars, svars, ovars, mvars, xvars, fvars, pvars, wvars>>

\* ask_user.py 35-38: asyncio.to_thread(ask, ...) returns the answer, the two
\* messages are appended and the state is returned
ask_user_answered ==
    /\ comp = "ask"
    /\ apc = "asking"
    /\ \E ans \in Replies :
        ask_messages' = ask_user_appends(ask_messages, question[1], ans)
    /\ apc' = "returned"
    /\ UNCHANGED <<comp, ask_before, question, ask_llm_calls>>
    /\ UNCHANGED <<gvars, dvars, ivars, svars, ovars, mvars, xvars, fvars, pvars, wvars>>

\* llm.ainvoke or ask raises: ask_user has no try block, the exception leaves
\* it with state.messages as they were
ask_user_raises ==
    /\ comp = "ask"
    /\ apc \in {"call", "asking"}
    /\ apc' = "raised"
    /\ UNCHANGED <<comp, ask_before, ask_messages, question, ask_llm_calls>>
    /\ UNCHANGED <<gvars, dvars, ivars, svars, ovars, mvars, xvars, fvars, pvars, wvars>>

AskNext ==
    \/ ask_user_formulate
    \/ ask_user_answered
    \/ ask_user_raises

----------------------------------------------------------------------------
(* _strip_markdown_code_fences (tools/generate.py, agent.py)               *)

\* A response is a sequence of tokens: "sp" a blank, "nl" a newline, "fence"
\* three backticks, "py" the word python, "x" any other run of characters.
Tokens == {"sp", "nl", "fence", "py", "x"}

\* \s of the regular expressions, and what str.strip() removes
IsSpace(tok) == tok \in {"sp", "nl"}

\* the token sequences of at most n tokens over T
SeqsUpTo(T, n) == UNION {[1..k -> T] : k \in 0..n}

\* an opening fence with its info string, the content, a newline, the fence
Block(label, content) == <<"fence">> \o label \o <<"nl">> \o content \o <<"nl", "fence">>

FenceFree(t) == \A k \in 1..Len(t) : t[k] # "fence"

\* the responses without a run of more than three backticks
FreeTexts ==
    {t \in SeqsUpTo(Tokens, MaxText) :
        \A k \in 1..(Len(t) - 1) : ~(t[k] = "fence" /\ t[k + 1] = "fence")}

Contents == SeqsUpTo(Tokens \ {"fence"}, MaxContent)

Margins == {<<>>, <<"sp">>, <<"nl">>}

Labels == {<<>>, <<"py">>}

\* the responses that are one fenced block, blanks around it
OneBlockTexts ==
    {pre \o Block(l, c) \o post :
        pre \in Margins, post \in Margins, l \in Labels, c \in Contents}

\* the contents of the blocks of a response with two blocks
TwoBlockContents == {<<>>, <<"x">>, <<"x", "sp", "x">>, <<"py", "nl", "x">>}

\* the responses with two fenced blocks, prose before and between them
TwoBlockTexts ==
    {pre \o Block(l1, c1) \o mid \o Block(l2, c2) :
        pre \in {<<>>, <<"x", "nl">>}, mid \in {<<"nl">>, <<"nl", "x", "nl">>},
        l1 \in Labels, l2 \in Labels,
        c1 \in TwoBlockContents, c2 \in TwoBlockContents}

Texts == FreeTexts \cup OneBlockTexts \cup TwoBlockTexts

\* the length of the run of \s tokens that starts at position from
RECURSIVE WsRun(_, _)
WsRun(t, from) ==
    IF from <= Len(t) /\ IsSpace(t[from]) THEN 1 + WsRun(t, from + 1) ELSE 0

\* str.strip()
strip(t) ==
    LET solid == {k \in 1..Len(t) : ~IsSpace(t[k])}
    IN  IF solid = {} THEN <<>> ELSE SubSeq(t, SetMin(solid), SetMax(solid))

\* the positions e after h where `\n```' matches
Closings(t, h) ==
    {e \in (h + 1)..(Len(t) - 1) : t[e] = "nl" /\ t[e + 1] = "fence"}

\* The ways ```\s*(?:python|py)?\s*\n can match at the fence at i so that the
\* rest of the pattern matches too: a tokens of the first \s*, p whether the
\* language is taken, b tokens of the second \s*, h the position of `\n'.
Headers(t, i) ==
    UNION { UNION { { [a |-> a, p |-> p, b |-> b, h |-> i + 1 + a + p + b] :
                      b \in {b \in 0..WsRun(t, i + 1 + a + p) :
                               LET h == i + 1 + a + p + b
                               IN  /\ h <= Len(t)
                                   /\ t[h] = "nl"
                                   /\ Closings(t, h) # {}} } :
                    p \in {p \in {0, 1} :
                             p = 1 => (i + 1 + a <= Len(t) /\ t[i + 1 + a] = "py")} } :
            a \in 0..WsRun(t, i + 1) }

\* the backtracking order: the greedy \s* as long as possible, then the
\* language taken rather than left, then the second \s* as long as possible
Rank(t, hd) == hd.a * 2 * (Len(t) + 1) + hd.p * (Len(t) + 1) + hd.b

\* pattern.search(text): <<>> for no match, else <<m.group(1)>>; the match
\* starts at the leftmost fence that has one, ([\s\S]*?) is as short as possible
pattern_search(t) ==
    LET starts == {i \in 1..Len(t) : t[i] = "fence" /\ Headers(t, i) # {}}
    IN  IF starts = {} THEN <<>>
        ELSE LET i == SetMin(starts)
                 hd == CHOOSE x \in Headers(t, i) :
                           \A y \in Headers(t, i) : Rank(t, x) >= Rank(t, y)
                 e == SetMin(Closings(t, hd.h))
             IN  <<SubSeq(t, hd.h + 1, e - 1)>>

\* pattern2.match(text.strip()): ^```\s*\n?([\s\S]*?)\n?```\s*$ on a text
\* without blanks at its ends; <<>> for no match, else <<m2.group(1)>>
pattern2_match(t) ==
    IF Len(t) >= 2 /\ t[1] = "fence" /\ t[Len(t)] = "fence"
    THEN LET from == 2 + WsRun(t, 2)
             last == Len(t) - 1
             to == IF last - 1 >= from /\ t[last] = "nl" THEN last - 1 ELSE last
         IN  <<SubSeq(t, from, to)>>
    ELSE <<>>

\* the function without the final strip of the whole response
_strip_markdown_code_fences_verbatim(t) ==
    LET m == pattern_search(t)
        m2 == pattern2_match(strip(t))
    IN  IF m # <<>> THEN strip(m[1])
        ELSE IF m2 # <<>> THEN strip(m2[1])
        ELSE t

\* generate.py 20-31, agent.py 26-38
_strip_markdown_code_fences(t) ==
    LET m == pattern_search(t)
        m2 == pattern2_match(strip(t))
    IN  IF m # <<>> THEN strip(m[1])
        ELSE IF m2 # <<>> THEN strip(m2[1])
        ELSE strip(t)

\* generate.py 123: final_code = _strip_markdown_code_fences(ai_content)
strip_fences_call ==
    /\ comp = "fence"
    /\ fpc = "call"
    /\ stripped' = _strip_markdown_code_fences(text)
    /\ fpc' = "returned"
    /\ UNCHANGED <<comp, text, restripped>>
    /\ UNCHANGED <<gvars, dvars, ivars, svars, ovars, mvars, xvars, avars, pvars, wvars>>

\* the function applied to its own result
strip_fences_again ==
    /\ comp = "fence"
    /\ fpc = "returned"
    /\ restripped' = _strip_markdown_code_fences(stripped)
    /\ fpc' = "again"
    /\ UNCHANGED <<comp, text, stripped>>
    /\ UNCHANGED <<gvars, dvars, ivars, svars, ovars, mvars, xvars, avars, pvars, wvars>>

FenceNext ==
    \/ strip_fences_call
    \/ strip_fences_again

----------------------------------------------------------------------------
(* execute_html_exploration: html_inspect/execution.py and                 *)
(* playwright_iterate/execution.py                                         *)

\* the first word of a command: nothing, a word that is no command, a word
\* that is no command but begins with show, and the commands
Verbs == {"", "bogus", "showall", "show", "expand", "text", "attrs", "finish", "help"}

\* the selector words: none, a selector that matches an element, one that
\* matches none, one that is no CSS selector
SelectorKinds == {"none", "match", "nomatch", "invalid"}

\* --depth: not given, given with a word that is no integer, given with n
DepthArgs ==
    {[kind |-> "absent", value |-> 0], [kind |-> "nonint", value |-> 0]}
    \cup {[kind |-> "int", value |-> n] : n \in (0 - 1)..MaxDepthArg}

\* the command strings; balanced is FALSE for an unclosed quotation mark
Commands ==
    {c \in [verb : Verbs, sel : SelectorKinds, depth : DepthArgs, balanced : BOOLEAN] :
        c.verb = "" => (c.sel = "none" /\ c.depth.kind = "absent" /\ c.balanced)}

\* the documents: the class attribute of a child of body as bs4 holds it;
\* class="" is held as an empty list or as a list with one empty string,
\* depending on the bs4 release
Soups == {[classes |-> cl] : cl \in {<<"main">>, <<>>, <<"">>}}

\* a returned string of some kind, a view with its depth
Str(kind, depth) == [raised |-> FALSE, success |-> TRUE, kind |-> kind, depth |-> depth]

\* an exception that leaves the function
Exc(name) == [raised |-> TRUE, success |-> FALSE, kind |-> name, depth |-> 0]

\* html_inspect: _HtmlExplorationParser.parse_command; shlex.split raises on
\* an unclosed quotation, argparse rejects an unknown command, a missing or a
\* surplus argument and a --depth that is no integer
parse_command(c) ==
    LET error == [error |-> TRUE, depth |-> 0]
        ok(d) == [error |-> FALSE, depth |-> d]
        given(default) == IF c.depth.kind = "int" THEN c.depth.value ELSE default
    IN  IF ~c.balanced THEN error
        ELSE IF c.verb \in {"", "bogus", "showall"} THEN error
        ELSE IF c.verb = "show"
             THEN IF c.sel # "none" \/ c.depth.kind = "nonint" THEN error ELSE ok(given(2))
        ELSE IF c.verb = "expand"
             THEN IF c.sel = "none" \/ c.depth.kind = "nonint" THEN error ELSE ok(given(3))
        ELSE IF c.verb \in {"text", "attrs"}
             THEN IF c.sel = "none" \/ c.depth.kind # "absent" THEN error ELSE ok(0)
        ELSE IF c.verb = "finish"
             THEN IF c.sel # "none" \/ c.depth.kind # "absent" THEN error ELSE ok(0)
        ELSE IF c.depth.kind # "absent" THEN error ELSE ok(0)

\* _find_element_by_css_selector: select_one, every exception gives None
_find_element_by_css_selector(sel) == sel = "match"

\* _get_navigation_suggestions (the same text in both files): classes[0] of the
\* class list of a child of body
_get_navigation_suggestions(sp) ==
    IF sp.classes = <<>> THEN Exc("IndexError") ELSE Str("suggestions", 0)

\* html_inspect: _execute_show_command
_execute_show_command(depth) ==
    IF depth < 1 \/ depth > 5 THEN Str("error", 0) ELSE Str("view", depth)

\* html_inspect: _execute_expand_command
_execute_expand_command(sp, sel, depth) ==
    IF depth < 1 \/ depth > 5 THEN Str("error", 0)
    ELSE IF ~_find_element_by_css_selector(sel) THEN _get_navigation_suggestions(sp)
    ELSE Str("view", depth)

\* html_inspect: _execute_text_command and _execute_attrs_command
_execute_text_command(sp, sel, kind) ==
    IF ~_find_element_by_css_selector(sel) THEN _get_navigation_suggestions(sp)
    ELSE Str(kind, 0)

\* html_inspect/execution.py: execute_html_exploration(command, soup)
execute_html_exploration(c, sp) ==
    LET args == parse_command(c)
    IN  IF args.error THEN Str("error", 0)
        ELSE IF c.verb = "show" THEN _execute_show_command(args.depth)
        ELSE IF c.verb = "expand" THEN _execute_expand_command(sp, c.sel, args.depth)
        ELSE IF c.verb \in {"text", "attrs"} THEN _execute_text_command(sp, c.sel, c.verb)
        ELSE IF c.verb = "finish" THEN Str("None", 0)
        ELSE Str("help", 0)

\* playwright_iterate: what follows the command word is the selector as it
\* stands; with a --depth or a quotation mark in it no element is found
pw_found(c) == c.sel = "match" /\ c.depth.kind = "absent" /\ c.balanced

\* playwright_iterate: the command is the bare word
pw_bare(c) == c.sel = "none" /\ c.depth.kind = "absent" /\ c.balanced

\* playwright_iterate/execution.py: execute_html_exploration(command, soup)
pw_execute_html_exploration(c, sp) ==
    IF c.verb \in {"show", "showall"} THEN Str("view", 2)
    ELSE IF c.verb = "expand" /\ ~pw_bare(c)
         THEN IF pw_found(c) THEN Str("view", 3) ELSE _get_navigation_suggestions(sp)
    ELSE IF c.verb \in {"text", "attrs"} /\ ~pw_bare(c)
         THEN IF pw_found(c) THEN Str(c.verb, 0) ELSE _get_navigation_suggestions(sp)
    ELSE IF c.verb = "finish" /\ pw_bare(c) THEN Str("finished", 0)
    ELSE IF c.verb = "help" /\ pw_bare(c) THEN Str("help", 0)
    ELSE Str("error", 0)

\* playwright_iterate/execution.py: execute_html_exploration_command
execute_html_exploration_command(c, sp) ==
    LET result == pw_execute_html_exploration(c, sp)
    IN  IF result.raised
        THEN [raised |-> FALSE, success |-> FALSE, kind |-> "exception_text", depth |-> 0]
        ELSE result

\* inspect_html_tool's call of execute_html_exploration
explore_html_inspect ==
    /\ comp = "explore"
    /\ xpc = "call"
    /\ engine = "html_inspect"
    /\ xresult' = execute_html_exploration(command, soup)
    /\ xpc' = IF xresult'.raised THEN "raised" ELSE "returned"
    /\ UNCHANGED <<comp, engine, command, soup, soup_before>>
    /\ UNCHANGED <<gvars, dvars, ivars, svars, ovars, mvars, fvars, avars, pvars, wvars>>

\* _execute_inspection_cycle's call of execute_html_exploration_command
explore_playwright_iterate ==
    /\ comp = "explore"
    /\ xpc = "call"
    /\ engine = "playwright_iterate"
    /\ xresult' = execute_html_exploration_command(command, soup)
    /\ xpc' = "returned"
    /\ UNCHANGED <<comp, engine, command, soup, soup_before>>
    /\ UNCHANGED <<gvars, dvars, ivars, svars, ovars, mvars, fvars, avars, pvars, wvars>>

ExploreNext ==
    \/ explore_html_inspect
    \/ explore_playwright_iterate

----------------------------------------------------------------------------
(* Agent.process: the AI message and the replies to its tool calls         *)

\* what a called tool does: "ok" (self.tools holds it and invoke returns),
\* "unknown" (self.tools.get gives None), "raises" (tool.invoke raises)
ToolKinds == {"ok", "unknown", "raises"}

\* result.tool_calls of one response; call i carries the id i
ToolCallLists == UNION {[1..k -> ToolKinds] : k \in 0..MaxToolCalls}

ai_message(n) == [type |-> "ai", calls |-> n, id |-> 0]

\* ToolMessage(content=tool_result.content, tool_call_id=tool_call["id"])
tool_message(i) == [type |-> "tool", calls |-> 0, id |-> i]

\* AIMessage(content="Tool call: ... not found")
not_found_message == [type |-> "notfound", calls |-> 0, id |-> 0]

\* the stream has ended with a result: the AI message is added first
process_stream ==
    /\ comp = "process"
    /\ kpc = "stream"
    /\ conversation' = <<ai_message(Len(tool_calls))>>
    /\ kpc' = IF tool_calls = <<>> THEN "returned" ELSE "tools"
    /\ UNCHANGED <<comp, tool_calls>>
    /\ UNCHANGED <<gvars, dvars, ivars, svars, ovars>>
    /\ UNCHANGED <<mvars, xvars, fvars, avars, pvars>>
    /\ UNCHANGED <<evars, tvars, hvars, bvars, yvars>>

\* llm.astream raises: nothing has been added
process_stream_raises ==
    /\ comp = "process"
    /\ kpc = "stream"
    /\ kpc' = "raised"
    /\ UNCHANGED <<comp, tool_calls, conversation>>
    /\ UNCHANGED <<gvars, dvars, ivars, svars, ovars>>
    /\ UNCHANGED <<mvars, xvars, fvars, avars, pvars>>
    /\ UNCHANGED <<evars, tvars, hvars, bvars, yvars>>

\* one pass of `for tool_call in result.tool_calls'; no try surrounds
\* tool.invoke, so its exception leaves process
process_tool_call ==
    /\ comp = "process"
    /\ kpc = "tools"
    /\ LET i == Len(conversation)
       IN  /\ i <= Len(tool_calls)
           /\ conversation' =
                 IF tool_calls[i] = "ok" THEN Append(conversation, tool_message(i))
                 ELSE IF tool_calls[i] = "unknown"
                      THEN Append(conversation, not_found_message)
                 ELSE conversation
           /\ kpc' = IF tool_calls[i] = "raises" THEN "raised"
                     ELSE IF i = Len(tool_calls) THEN "returned"
                     ELSE "tools"
    /\ UNCHANGED <<comp, tool_calls>>
    /\ UNCHANGED <<gvars, dvars, ivars, svars, ovars>>
    /\ UNCHANGED <<mvars, xvars, fvars, avars, pvars>>
    /\ UNCHANGED <<evars, tvars, hvars, bvars, yvars>>

ProcessNext ==
    \/ process_stream
    \/ process_stream_raises
    \/ process_tool_call

----------------------------------------------------------------------------
(* execute_playwright_code and the iteration that calls it                 *)

\* what the generated code does when execute_playwright_code runs it
CodeKinds == {"syntax_error",     \* exec(code) raises SyntaxError
              "exits",            \* exec(code) raises SystemExit (sys.exit())
              "no_function",      \* the namespace has no callable run or main
              "launch_fails",     \* pw.chromium.launch raises playwright's Error
              "function_raises",  \* await async_func(page) raises an Exception
              "function_exits",   \* await async_func(page) raises SystemExit
              "cancelled",        \* the task is cancelled while it awaits
              "ok"}               \* the function returns, page.content() too

\* the exception raised inside the try block, "none" where none is raised
raised_in_try(c) ==
    CASE c = "syntax_error" -> "SyntaxError"
      [] c = "exits" -> "SystemExit"
      [] c = "launch_fails" -> "Error"
      [] c = "function_raises" -> "RuntimeError"
      [] c = "function_exits" -> "SystemExit"
      [] c = "cancelled" -> "CancelledError"
      [] OTHER -> "none"

\* the classes `except Exception' does not catch: they derive from
\* BaseException only
BaseExceptionOnly == {"SystemExit", "KeyboardInterrupt", "GeneratorExit", "CancelledError"}

PlaywrightExecutionResult(ok, html, msg) ==
    [raised |-> FALSE, exc |-> "none", success |-> ok, page_html |-> html,
     error_message |-> msg]

Propagates(e) ==
    [raised |-> TRUE, exc |-> e, success |-> FALSE, page_html |-> FALSE,
     error_message |-> FALSE]

\* the function body without its try / except
execute_playwright_code_uncaught(c) ==
    LET e == raised_in_try(c)
    IN  IF e # "none" THEN Propagates(e)
        ELSE IF c = "no_function" THEN PlaywrightExecutionResult(FALSE, FALSE, TRUE)
        ELSE PlaywrightExecutionResult(TRUE, TRUE, FALSE)

\* execute_playwright_code(code, base_url, headless)
execute_playwright_code(c) ==
    LET e == raised_in_try(c)
    IN  IF e # "none"
        THEN IF e \in BaseExceptionOnly
             THEN Propagates(e)
             ELSE PlaywrightExecutionResult(FALSE, FALSE, TRUE)
        ELSE IF c = "no_function" THEN PlaywrightExecutionResult(FALSE, FALSE, TRUE)
        ELSE PlaywrightExecutionResult(TRUE, TRUE, FALSE)

\* _execute_playwright_iteration awaits execute_playwright_code
execute_playwright_code_call ==
    /\ comp = "exec"
    /\ epc = "call"
    /\ LET r == execute_playwright_code(code)
       IN  /\ playwright_result' = <<r>>
           /\ epc' = IF r.raised THEN "raised" ELSE "returned"
    /\ UNCHANGED <<comp, code, iteration_context>>
    /\ UNCHANGED <<gvars, dvars, ivars, svars, ovars>>
    /\ UNCHANGED <<mvars, xvars, fvars, avars, pvars>>
    /\ UNCHANGED <<kvars, tvars, hvars, bvars, yvars>>

\* playwright_iterate_cycle goes on to the next iteration: after a failure
\* with the error text as context, after a success with the inspection output
playwright_iteration_next ==
    /\ comp = "exec"
    /\ epc = "returned"
    /\ iteration_context' = IF playwright_result[1].success
                            THEN "inspection_output"
                            ELSE "playwright_error"
    /\ epc' = "next"
    /\ UNCHANGED <<comp, code, playwright_result>>
    /\ UNCHANGED <<gvars, dvars, ivars, svars, ovars>>
    /\ UNCHANGED <<mvars, xvars, fvars, avars, pvars>>
    /\ UNCHANGED <<kvars, tvars, hvars, bvars, yvars>>

ExecNext ==
    \/ execute_playwright_code_call
    \/ playwright_iteration_next

----------------------------------------------------------------------------
(* html_inspect/execution.py: the limits of the commands' outputs          *)
(* Strings are modelled by their lengths.                                  *)

MAX_FULL_TEXT_LENGTH == 300

MAX_ATTR_VALUE_LENGTH == 100

MAX_VIEW_LENGTH == 2000

MAX_SUGGESTIONS_LENGTH == 500

TrimVerbs == {"text", "show", "expand", "attrs"}

\* the lengths tried for what the document gives: empty, short, around each
\* limit, and documents far larger than every limit
BodyLengths ==
    {0, 1}
    \cup UNION {{m - 1, m, m + 1} : m \in {MAX_FULL_TEXT_LENGTH, MAX_ATTR_VALUE_LENGTH,
                                          MAX_VIEW_LENGTH, MAX_SUGGESTIONS_LENGTH}}
    \cup {k * 10000 : k \in 1..MaxDoc}

TrimInputs ==
    [verb : TrimVerbs, found : BOOLEAN, selector : 1..MaxSelector, body : BodyLengths]

\* a _trim_content that returns its content as it is
_trim_content_whole(content, max_length) == content

\* _trim_content: len(content[:max_length] + "...") is max_length + 3
_trim_content(content, max_length) ==
    IF content <= max_length THEN content ELSE max_length + 3

Output(fixed, selector, kind, body, value) ==
    [fixed |-> fixed, selector |-> selector, kind |-> kind, body |-> body,
     value |-> value]

\* the not-found reply of expand, text and attrs: the selector and the
\* suggestions; i.body is the length of the joined suggestion lines
not_found(i) ==
    Output(73, i.selector, "suggestions",
           _trim_content(i.body, MAX_SUGGESTIONS_LENGTH), 0)

\* _execute_show_command with a valid depth; i.body is len(view) untrimmed
trim_show(i) ==
    Output(93, 0, "view", _trim_content(i.body, MAX_VIEW_LENGTH), 0)

\* _execute_expand_command with a valid depth
trim_expand(i) ==
    IF ~i.found THEN not_found(i)
    ELSE Output(103, i.selector, "view", _trim_content(i.body, MAX_VIEW_LENGTH), 0)

\* _execute_text_command; i.body is len(element.get_text(strip=True))
trim_text(i) ==
    IF ~i.found THEN not_found(i)
    ELSE IF _trim_content(i.body, MAX_FULL_TEXT_LENGTH) = 0
         THEN Output(32, i.selector, "none", 0, 0)
    ELSE Output(22, i.selector, "text", _trim_content(i.body, MAX_FULL_TEXT_LENGTH), 0)

\* _execute_attrs_command on an element with one attribute whose name has one
\* character; i.body is len(str(v)); a line is "  k: " and the trimmed value
trim_attrs(i) ==
    IF ~i.found THEN not_found(i)
    ELSE IF i.body = 0 THEN Output(31, i.selector, "none", 0, 0)
    ELSE LET trimmed_value == _trim_content(i.body, MAX_ATTR_VALUE_LENGTH)
         IN  Output(21, i.selector, "attrs",
                    _trim_content(5 + trimmed_value, MAX_VIEW_LENGTH), trimmed_value)

\* execute_html_exploration for the four commands that read the document
trim_execute(i) ==
    CASE i.verb = "show" -> trim_show(i)
      [] i.verb = "expand" -> trim_expand(i)
      [] i.verb = "text" -> trim_text(i)
      [] i.verb = "attrs" -> trim_attrs(i)

\* len(result)
ResultLength(o) == o.fixed + o.selector + o.body

\* one exploration command is executed
trim_call ==
    /\ comp = "trim"
    /\ zpc = "call"
    /\ trim_output' = trim_execute(trim_input)
    /\ zpc' = "returned"
    /\ UNCHANGED <<comp, trim_input>>
    /\ UNCHANGED <<gvars, dvars, ivars, svars, ovars>>
    /\ UNCHANGED <<mvars, xvars, fvars, avars, pvars>>
    /\ UNCHANGED <<kvars, evars, hvars, bvars, yvars>>

TrimNext == trim_call

----------------------------------------------------------------------------
(* RecordingManager of html_inspect (tools/html_inspect/recording.py)      *)
(* The snapshot stored at t is named by its key t.                         *)

HReturn(src, at) == [raised |-> FALSE, err |-> "", src |-> src, at |-> at]

HRaise(e) == [raised |-> TRUE, err |-> e, src |-> "none", at |-> 0]

\* validate_timestamp: ok is FALSE where the code raises ValueError
h_validate_timestamp(arg) ==
    LET ts == IF arg = <<>> THEN hs_range[2] ELSE arg[1]
    IN  [ok |-> ~(ts < hs_range[1] \/ ts > hs_range[2]), ts |-> ts]

\* a lookup that falls back to the nearest snapshot, earlier or later
h_lookup_nearest(keys, latest, arg) ==
    LET v == h_validate_timestamp(arg)
    IN  IF ~v.ok THEN HRaise("range")
        ELSE IF v.ts \in keys THEN HReturn("snapshot", v.ts)
        ELSE IF keys # {}
             THEN HReturn("snapshot",
                          CHOOSE t \in keys : \A u \in keys :
                              Abs(t - v.ts) < Abs(u - v.ts)
                              \/ (Abs(t - v.ts) = Abs(u - v.ts) /\ t <= u))
        ELSE IF latest THEN HReturn("latest", 0)
        ELSE HRaise("none")

\* the body shared by get_html_at and get_screenshot_at: the exact key, the
\* greatest earlier key, the end-of-run artifact, ValueError
h_lookup(keys, latest, arg) ==
    LET v == h_validate_timestamp(arg)
        earlier_times == {t \in keys : t <= v.ts}
    IN  IF ~v.ok THEN HRaise("range")
        ELSE IF v.ts \in keys THEN HReturn("snapshot", v.ts)
        ELSE IF keys # {} /\ earlier_times # {}
             THEN HReturn("snapshot", SetMax(earlier_times))
        ELSE IF latest THEN HReturn("latest", 0)
        ELSE HRaise("none")

HAnswered(op, arg, res) ==
    [op |-> op, arg |-> arg, raised |-> res.raised, err |-> res.err,
     src |-> res.src, at |-> res.at]

\* RecordingManager.get_html_at
h_get_html_at_call ==
    /\ comp = "hstore"
    /\ \E arg \in QueryArgs :
          hq' = HAnswered("get_html_at", arg, h_lookup(hs_html, hs_latest.html, arg))
    /\ UNCHANGED <<comp, hs_html, hs_shots, hs_latest, hs_range>>
    /\ UNCHANGED <<gvars, dvars, ivars, svars, ovars>>
    /\ UNCHANGED <<mvars, xvars, fvars, avars, pvars>>
    /\ UNCHANGED <<kvars, evars, tvars, bvars, yvars>>

\* RecordingManager.get_screenshot_at
h_get_screenshot_at_call ==
    /\ comp = "hstore"
    /\ \E arg \in QueryArgs :
          hq' = HAnswered("get_screenshot_at", arg,
                          h_lookup(hs_shots, hs_latest.screenshot, arg))
    /\ UNCHANGED <<comp, hs_html, hs_shots, hs_latest, hs_range>>
    /\ UNCHANGED <<gvars, dvars, ivars, svars, ovars>>
    /\ UNCHANGED <<mvars, xvars, fvars, avars, pvars>>
    /\ UNCHANGED <<kvars, evars, tvars, bvars, yvars>>

HStoreNext ==
    \/ h_get_html_at_call
    \/ h_get_screenshot_at_call

----------------------------------------------------------------------------
(* BrowserRecorder: the page's action buffer and the polling loop          *)
(* The k-th action the user performs is named k; a navigation record is 0. *)

\* the page's listeners push a click or input record to window.trestoActions
page_pushes_action ==
    /\ comp = "recorder"
    /\ pushed < MaxPush
    /\ trestoActions' = Append(trestoActions, pushed + 1)
    /\ pushed' = pushed + 1
    /\ UNCHANGED <<comp, actions, navigations, bpc>>
    /\ UNCHANGED <<gvars, dvars, ivars, svars, ovars>>
    /\ UNCHANGED <<mvars, xvars, fvars, avars, pvars>>
    /\ UNCHANGED <<kvars, evars, tvars, hvars, yvars>>

\* _on_navigation for the main frame: runs while the polling loop awaits
_on_navigation ==
    /\ comp = "recorder"
    /\ navigations < MaxNav
    /\ actions' = Append(actions, 0)
    /\ navigations' = navigations + 1
    /\ UNCHANGED <<comp, trestoActions, pushed, bpc>>
    /\ UNCHANGED <<gvars, dvars, ivars, svars, ovars>>
    /\ UNCHANGED <<mvars, xvars, fvars, avars, pvars>>
    /\ UNCHANGED <<kvars, evars, tvars, hvars, yvars>>

\* browser_actions[existing_count:]
new_actions(browser_actions, existing_count) ==
    SubSeq(browser_actions, existing_count + 1, Len(browser_actions))

\* _wait_for_user_completion after the sleep: the first evaluate reads the
\* buffer; a buffer that is not empty is merged, and the loop goes on to the
\* second evaluate
poll_evaluate ==
    /\ comp = "recorder"
    /\ bpc = "sleep"
    /\ LET browser_actions == trestoActions
       IN  IF browser_actions # <<>>
           THEN /\ actions' = actions \o new_actions(browser_actions, Len(actions))
                /\ bpc' = "clear"
           ELSE UNCHANGED <<actions, bpc>>
    /\ UNCHANGED <<comp, trestoActions, pushed, navigations>>
    /\ UNCHANGED <<gvars, dvars, ivars, svars, ovars>>
    /\ UNCHANGED <<mvars, xvars, fvars, avars, pvars>>
    /\ UNCHANGED <<kvars, evars, tvars, hvars, yvars>>

\* the second evaluate: window.trestoActions = []
poll_clear ==
    /\ comp = "recorder"
    /\ bpc = "clear"
    /\ trestoActions' = <<>>
    /\ bpc' = "sleep"
    /\ UNCHANGED <<comp, actions, pushed, navigations>>
    /\ UNCHANGED <<gvars, dvars, ivars, svars, ovars>>
    /\ UNCHANGED <<mvars, xvars, fvars, avars, pvars>>
    /\ UNCHANGED <<kvars, evars, tvars, hvars, yvars>>

RecorderNext ==
    \/ page_pushes_action
    \/ _on_navigation
    \/ poll_evaluate
    \/ poll_clear

----------------------------------------------------------------------------
(* TestAgentState.current_test_code: the test file behind the property     *)
(* A string is a sequence of tokens: "x" a character that is no white      *)
(* space, "sp" a blank, "nl" a newline; "G", "N", "I" are the fixed texts   *)
(* `# Generated by Tresto v...', `# Test name: ', `# Test instructions: '. *)

\* state.test_name
test_name == <<"x">>

\* instruction texts: any lines, blank lines among them
InstructionTexts == SeqsUpTo({"x", "nl"}, MaxInstr)

\* the code handed to the setter
CodeTexts == SeqsUpTo({"x", "sp", "nl"}, MaxCode)

\* the f-string the setter writes
header(name, instructions) ==
    <<"G", "nl", "N">> \o name \o <<"nl", "I">> \o instructions \o <<"nl">>

\* current_test_code.setter: the content of the file after the write
current_test_code_set(name, instructions, value) ==
    header(name, instructions) \o <<"nl", "nl">> \o value

\* s.split("\n\n", 1)[-1]: what follows the first blank line, s without one
after_first_blank_line(s) ==
    LET at == {i \in 1..(Len(s) - 1) : s[i] = "nl" /\ s[i + 1] = "nl"}
    IN  IF at = {} THEN s ELSE SubSeq(s, SetMin(at) + 2, Len(s))

\* current_test_code (getter) on an existing file
current_test_code_get(name, instructions, result) ==
    IF result # <<>> /\ Head(result) = "G"
    THEN strip(after_first_blank_line(result))
    ELSE result

\* state.current_test_code = value
test_code_written ==
    /\ comp = "codefile"
    /\ ypc = "write"
    /\ test_file' = current_test_code_set(test_name, test_instructions, written_code)
    /\ ypc' = "read"
    /\ UNCHANGED <<comp, test_instructions, written_code, read_code>>
    /\ UNCHANGED <<gvars, dvars, ivars, svars, ovars>>
    /\ UNCHANGED <<mvars, xvars, fvars, avars, pvars>>
    /\ UNCHANGED <<kvars, evars, tvars, hvars, bvars>>

\* state.current_test_code is read
test_code_read ==
    /\ comp = "codefile"
    /\ ypc = "read"
    /\ read_code' = current_test_code_get(test_name, test_instructions, test_file)
    /\ ypc' = "done"
    /\ UNCHANGED <<comp, test_instructions, written_code, test_file>>
    /\ UNCHANGED <<gvars, dvars, ivars, svars, ovars>>
    /\ UNCHANGED <<mvars, xvars, fvars, avars, pvars>>
    /\ UNCHANGED <<kvars, evars, tvars, hvars, bvars>>

CodeFileNext ==
    \/ test_code_written
    \/ test_code_read

----------------------------------------------------------------------------
(* LangGraphTestAgent                                                      *)

\* state.py: Decision = Literal[...]
GraphDecision == {"ask_user", "run_test", "modify_code", "inspect_site", "finish"}

\* the tags that are control flow only
ControlTags == {"decide_next_action", "finish"}

\* graph.add_node(...)
Nodes == {"modify_code", "run_test", "inspect_site", "ask_user"}

\* the path map of set_conditional_entry_point / add_conditional_edges
PathMap_finish_to_node ==
    [d \in GraphDecision |-> IF d = "finish" THEN "ask_user" ELSE d]

PathMap ==
    [d \in GraphDecision |-> IF d = "finish" THEN "END" ELSE d]

\* _decide_next without the iteration cap having priority
decide_next_nocap(it, max_it, hc, rr, nt) ==
    IF ~hc THEN "modify_code"
    ELSE IF rr = "none" THEN "run_test"
    ELSE IF rr = "fail" THEN
        IF nt = "" THEN "inspect_site"
        ELSE IF it % 2 = 1 THEN "ask_user"
        ELSE "modify_code"
    ELSE "finish"

\* _decide_next(state)["decision"]
decide_next(it, max_it, hc, rr, nt) ==
    IF it >= max_it THEN "finish"
    ELSE IF ~hc THEN "modify_code"
    ELSE IF rr = "none" THEN "run_test"
    ELSE IF rr = "fail" THEN
        IF nt = "" THEN "inspect_site"
        ELSE IF it % 2 = 1 THEN "ask_user"
        ELSE "modify_code"
    ELSE "finish"

\* router(state)
router == decide_next(iterations, max_iterations, has_code, run_result, notes)

\* the compiled graph runs node n next
Routed(n) ==
    /\ comp = "graph"
    /\ gpc = "graph"
    /\ PathMap[router] = n
    /\ dispatches < MaxDispatches

\* a wrapper that stores the iteration number it prints
wrap_counting ==
    /\ dispatches' = dispatches + 1
    /\ lastRouted' = router
    /\ iterations' = iterations + 1
    /\ UNCHANGED <<comp, max_iterations, gpc, failed, probe>>
    /\ UNCHANGED <<dvars, ivars, svars, ovars, nvars>>

\* wrap(name, fn): inner(s) runs fn(s) and returns its result; `it' is only printed
wrap ==
    /\ dispatches' = dispatches + 1
    /\ lastRouted' = router
    /\ UNCHANGED <<comp, max_iterations, iterations, gpc, failed, probe>>
    /\ UNCHANGED <<dvars, ivars, svars, ovars, nvars>>

\* the four handlers, by what they leave in the state the router reads:
\*   modify_code  generate_or_update_code writes the test code
\*   run_test     one TestRunResult, passing or failing
\*   inspect_site inspect_site always returns at least one note line
\*   ask_user     question and answer go to the messages only
Handler(n) ==
    /\ has_code' = IF n = "modify_code" THEN TRUE ELSE has_code
    /\ IF n = "run_test"
       THEN \E r \in {"pass", "fail"} : run_result' = r
       ELSE run_result' = run_result
    /\ notes' = IF n = "inspect_site" THEN "text" ELSE notes

\* one node of the compiled graph runs: inner(s) of wrap(name, fn)
inner ==
    \E n \in Nodes :
        /\ Routed(n)
        /\ wrap
        /\ Handler(n)

\* a wrapper that catches the handler's exception and hands the state on
inner_swallows ==
    \E n \in Nodes :
        /\ Routed(n)
        /\ dispatches' = dispatches + 1
        /\ lastRouted' = router
        /\ failed' = TRUE
        /\ UNCHANGED <<comp, max_iterations, iterations, has_code, run_result,
                       notes, gpc, probe>>
        /\ UNCHANGED <<dvars, ivars, svars, ovars, nvars>>

\* fn(s) raises inside inner(s): nothing catches it in inner, in the compiled
\* graph's ainvoke or in run, so run is left by the exception
inner_raises ==
    \E n \in Nodes :
        /\ Routed(n)
        /\ dispatches' = dispatches + 1
        /\ lastRouted' = router
        /\ failed' = TRUE
        /\ gpc' = "raised"
        /\ UNCHANGED <<comp, max_iterations, iterations, has_code, run_result,
                       notes, probe>>
        /\ UNCHANGED <<dvars, ivars, svars, ovars, nvars>>

\* the router returns a decision mapped to END: ainvoke returns
graph_end ==
    /\ comp = "graph"
    /\ gpc = "graph"
    /\ PathMap[router] = "END"
    /\ gpc' = "outer"
    /\ UNCHANGED <<comp, max_iterations, iterations, has_code, run_result,
                   notes, failed, dispatches, lastRouted, probe>>
    /\ UNCHANGED <<dvars, ivars, svars, ovars, nvars>>

\* run(): the statements after ainvoke in the while loop
run_loop ==
    /\ comp = "graph"
    /\ gpc = "outer"
    /\ iterations' = iterations + 1
    /\ gpc' = IF decide_next(iterations + 1, max_iterations, has_code,
                             run_result, notes) = "finish"
              THEN "returned" ELSE "graph"
    /\ UNCHANGED <<comp, max_iterations, has_code, run_result, notes,
                   failed, dispatches, lastRouted, probe>>
    /\ UNCHANGED <<dvars, ivars, svars, ovars, nvars>>

\* _decide_next called on an arbitrary state
decide_next_call ==
    /\ comp = "router"
    /\ gpc = "probe"
    /\ probe' = decide_next(iterations, max_iterations, has_code, run_result, notes)
    /\ gpc' = "probed"
    /\ UNCHANGED <<comp, max_iterations, iterations, has_code, run_result,
                   notes, failed, dispatches, lastRouted>>
    /\ UNCHANGED <<dvars, ivars, svars, ovars, nvars>>

GraphNext ==
    \/ inner
    \/ inner_raises
    \/ graph_end
    \/ run_loop
    \/ decide_next_call

----------------------------------------------------------------------------

(* Initial states                                                          *)

\* run(): the initial state handed to the compiled graph
GraphInit ==
    /\ comp = "graph"
    /\ max_iterations \in 0..MaxIterBound
    /\ iterations = 0
    /\ has_code = FALSE
    /\ run_result = "none"
    /\ notes = ""
    /\ gpc = "graph"
    /\ failed = FALSE
    /\ dispatches = 0
    /\ lastRouted = "none"
    /\ probe = "none"
    /\ DecideIdle
    /\ InspectIdle
    /\ StoreIdle
    /\ OtherIdle

\* any state a caller can hand to _decide_next
RouterInit ==
    /\ comp = "router"
    /\ max_iterations \in 0..MaxIterBound
    /\ iterations \in 0..(MaxIterBound + 1)
    /\ has_code \in BOOLEAN
    /\ run_result \in {"none", "pass", "fail"}
    /\ notes \in {"", "text"}
    /\ gpc = "probe"
    /\ failed = FALSE
    /\ dispatches = 0
    /\ lastRouted = "none"
    /\ probe = "none"
    /\ DecideIdle
    /\ InspectIdle
    /\ StoreIdle
    /\ OtherIdle

\* a fresh TestAgentState; the recording file may exist already
DecideInit ==
    /\ comp = "decide"
    /\ recorded \in BOOLEAN
    /\ last_decision = "None"
    /\ nmessages = 1
    /\ dpc = "call"
    /\ answer = ""
    /\ ltail = "none"
    /\ calls = 0
    /\ GraphIdle
    /\ InspectIdle
    /\ StoreIdle
    /\ OtherIdle

\* a TestAgentState entering inspect_html_tool
HtmlInit ==
    /\ comp = "html"
    /\ local_messages = 0
    /\ ipc = "entry"
    /\ rounds = 0
    /\ last_command = "none"
    /\ GraphIdle
    /\ DecideIdle
    /\ StoreIdle
    /\ OtherIdle

\* a TestAgentState entering playwright_iterate_cycle
PlaywrightInit ==
    /\ comp = "pw"
    /\ local_messages = 0
    /\ ipc = "entry"
    /\ rounds = 0
    /\ last_command = "none"
    /\ GraphIdle
    /\ DecideIdle
    /\ StoreIdle
    /\ OtherIdle

\* RecordingManager(time_range, sources) for any sources over Times
StoreInit ==
    /\ comp = "store"
    /\ html_snapshots \in KeyOrders(Times)
    /\ screenshots \in KeyOrders(Times)
    /\ Len(html_snapshots) + Len(screenshots) <= MaxSnaps
    /\ \E given \in {<<>>} \cup {<<r>> : r \in Times \X Times}, now \in Times :
          /\ explicit_range = (given # <<>>)
          /\ time_range = manager_time_range(given, html_snapshots, screenshots, now)
    /\ q = NoQuery
    /\ GraphIdle
    /\ DecideIdle
    /\ InspectIdle
    /\ OtherIdle

\* RecordingManager(trace_path) is about to run on any archive
LoadInit ==
    /\ comp = "load"
    /\ archive \in Archives
    /\ loaded_html = <<>>
    /\ loaded_shots = <<>>
    /\ loaded_range = <<>>
    /\ lpc = "construct"
    /\ GraphIdle
    /\ DecideIdle
    /\ InspectIdle
    /\ StoreIdle
    /\ CycleIdle
    /\ RunTestIdle
    /\ NewerIdle

\* _execute_inspection_cycle has been called; the goals are set
CycleInit ==
    /\ comp = "cycle"
    /\ inspection_attempt = 0
    /\ exploration_result = "none"
    /\ final_output = "none"
    /\ cpc = "loop"
    /\ GraphIdle
    /\ DecideIdle
    /\ InspectIdle
    /\ StoreIdle
    /\ LoadIdle
    /\ RunTestIdle
    /\ NewerIdle

\* a test is about to be run, whatever the file and the browser do
RunTestInit ==
    /\ comp = "runtest"
    /\ test_case \in TestCases
    /\ called = "none"
    /\ last_run_result = <<>>
    /\ tpc = "call"
    /\ GraphIdle
    /\ DecideIdle
    /\ InspectIdle
    /\ StoreIdle
    /\ LoadIdle
    /\ CycleIdle
    /\ NewerIdle

\* `tresto test iterate' is invoked
IterateInit ==
    /\ comp = "iterate"
    /\ agent_outcome = "none"
    /\ report = "none"
    /\ report_path = FALSE
    /\ mpc = "start"
    /\ ExploreIdle
    /\ FenceIdle
    /\ AskIdle
    /\ OuterIdle
    /\ LaterIdle
    /\ GraphIdle
    /\ DecideIdle
    /\ InspectIdle
    /\ StoreIdle
    /\ LoadIdle
    /\ CycleIdle
    /\ RunTestIdle

\* ask_user is called on a state with some durable history
AskInit ==
    /\ comp = "ask"
    /\ ask_before \in Histories
    /\ ask_messages = ask_before
    /\ question = <<>>
    /\ ask_llm_calls = 0
    /\ apc = "call"
    /\ IterateIdle
    /\ ExploreIdle
    /\ FenceIdle
    /\ OuterIdle
    /\ LaterIdle
    /\ GraphIdle
    /\ DecideIdle
    /\ InspectIdle
    /\ StoreIdle
    /\ LoadIdle
    /\ CycleIdle
    /\ RunTestIdle

\* a response of the model is about to be stripped
FenceInit ==
    /\ comp = "fence"
    /\ text \in Texts
    /\ stripped = <<>>
    /\ restripped = <<>>
    /\ fpc = "call"
    /\ IterateIdle
    /\ ExploreIdle
    /\ AskIdle
    /\ OuterIdle
    /\ LaterIdle
    /\ GraphIdle
    /\ DecideIdle
    /\ InspectIdle
    /\ StoreIdle
    /\ LoadIdle
    /\ CycleIdle
    /\ RunTestIdle

\* one of the two engines is about to run a command on a document
ExploreInit ==
    /\ comp = "explore"
    /\ engine \in {"html_inspect", "playwright_iterate"}
    /\ command \in Commands
    /\ soup \in Soups
    /\ soup_before = soup
    /\ xresult = [raised |-> FALSE, success |-> FALSE, kind |-> "none", depth |-> 0]
    /\ xpc = "call"
    /\ IterateIdle
    /\ FenceIdle
    /\ AskIdle
    /\ OuterIdle
    /\ LaterIdle
    /\ GraphIdle
    /\ DecideIdle
    /\ InspectIdle
    /\ StoreIdle
    /\ LoadIdle
    /\ CycleIdle
    /\ RunTestIdle

\* Agent.process is called; the model's response carries any tool calls
ProcessInit ==
    /\ comp = "process"
    /\ tool_calls \in ToolCallLists
    /\ conversation = <<>>
    /\ kpc = "stream"
    /\ ExecIdle
    /\ TrimIdle
    /\ HStoreIdle
    /\ RecorderIdle
    /\ CodeFileIdle
    /\ IterateIdle
    /\ ExploreIdle
    /\ FenceIdle
    /\ AskIdle
    /\ OuterIdle
    /\ GraphIdle
    /\ DecideIdle
    /\ InspectIdle
    /\ StoreIdle
    /\ LoadIdle
    /\ CycleIdle
    /\ RunTestIdle

\* an iteration is about to execute generated code of any kind
ExecInit ==
    /\ comp = "exec"
    /\ code \in CodeKinds
    /\ playwright_result = <<>>
    /\ iteration_context \in {"", "inspection_output", "playwright_error"}
    /\ epc = "call"
    /\ ProcessIdle
    /\ TrimIdle
    /\ HStoreIdle
    /\ RecorderIdle
    /\ CodeFileIdle
    /\ IterateIdle
    /\ ExploreIdle
    /\ FenceIdle
    /\ AskIdle
    /\ OuterIdle
    /\ GraphIdle
    /\ DecideIdle
    /\ InspectIdle
    /\ StoreIdle
    /\ LoadIdle
    /\ CycleIdle
    /\ RunTestIdle

\* a command is about to run on a document of any size
TrimInit ==
    /\ comp = "trim"
    /\ trim_input \in TrimInputs
    /\ trim_output = Output(0, 0, "none", 0, 0)
    /\ zpc = "call"
    /\ ProcessIdle
    /\ ExecIdle
    /\ HStoreIdle
    /\ RecorderIdle
    /\ CodeFileIdle
    /\ IterateIdle
    /\ ExploreIdle
    /\ FenceIdle
    /\ AskIdle
    /\ OuterIdle
    /\ GraphIdle
    /\ DecideIdle
    /\ InspectIdle
    /\ StoreIdle
    /\ LoadIdle
    /\ CycleIdle
    /\ RunTestIdle

\* RecordingManager(time_range, latest_html, latest_screenshot, sources) of
\* html_inspect: any sources over Times, any latest artifacts, a given range
\* or the range of the sources, (now, now) for empty sources
HStoreInit ==
    /\ comp = "hstore"
    /\ hs_html \in SUBSET Times
    /\ hs_shots \in SUBSET Times
    /\ Cardinality(hs_html) + Cardinality(hs_shots) <= MaxSnaps
    /\ hs_latest \in [html : BOOLEAN, screenshot : BOOLEAN]
    /\ \/ \E r \in Times \X Times : r[1] <= r[2] /\ hs_range = r
       \/ /\ hs_html \cup hs_shots # {}
          /\ hs_range = <<SetMin(hs_html \cup hs_shots), SetMax(hs_html \cup hs_shots)>>
       \/ /\ hs_html \cup hs_shots = {}
          /\ \E now \in Times : hs_range = <<now, now>>
    /\ hq = NoHQuery
    /\ ProcessIdle
    /\ ExecIdle
    /\ TrimIdle
    /\ RecorderIdle
    /\ CodeFileIdle
    /\ IterateIdle
    /\ ExploreIdle
    /\ FenceIdle
    /\ AskIdle
    /\ OuterIdle
    /\ GraphIdle
    /\ DecideIdle
    /\ InspectIdle
    /\ StoreIdle
    /\ LoadIdle
    /\ CycleIdle
    /\ RunTestIdle

\* start_recording has set up the listeners; the polling loop starts
RecorderInit ==
    /\ comp = "recorder"
    /\ trestoActions = <<>>
    /\ actions = <<>>
    /\ pushed = 0
    /\ navigations = 0
    /\ bpc = "sleep"
    /\ ProcessIdle
    /\ ExecIdle
    /\ TrimIdle
    /\ HStoreIdle
    /\ CodeFileIdle
    /\ IterateIdle
    /\ ExploreIdle
    /\ FenceIdle
    /\ AskIdle
    /\ OuterIdle
    /\ GraphIdle
    /\ DecideIdle
    /\ InspectIdle
    /\ StoreIdle
    /\ LoadIdle
    /\ CycleIdle
    /\ RunTestIdle

\* a state with any instruction text is about to write any test code
CodeFileInit ==
    /\ comp = "codefile"
    /\ test_instructions \in InstructionTexts
    /\ written_code \in CodeTexts
    /\ test_file = <<>>
    /\ read_code = <<>>
    /\ ypc = "write"
    /\ ProcessIdle
    /\ ExecIdle
    /\ TrimIdle
    /\ HStoreIdle
    /\ RecorderIdle
    /\ IterateIdle
    /\ ExploreIdle
    /\ FenceIdle
    /\ AskIdle
    /\ OuterIdle
    /\ GraphIdle
    /\ DecideIdle
    /\ InspectIdle
    /\ StoreIdle
    /\ LoadIdle
    /\ CycleIdle
    /\ RunTestIdle

Init ==
    \/ CodeFileInit
    \/ RecorderInit
    \/ HStoreInit
    \/ TrimInit
    \/ ExecInit
    \/ ProcessInit
    \/ IterateInit
    \/ ExploreInit
    \/ FenceInit
    \/ AskInit
    \/ RunTestInit
    \/ CycleInit
    \/ LoadInit
    \/ GraphInit
    \/ RouterInit
    \/ DecideInit
    \/ HtmlInit
    \/ PlaywrightInit
    \/ StoreInit

Next ==
    \/ GraphNext
    \/ DecideNext
    \/ InspectNext
    \/ StoreNext
    \/ LoadNext
    \/ CycleNext
    \/ RunTestNext
    \/ IterateNext
    \/ AskNext
    \/ FenceNext
    \/ ExploreNext
    \/ ProcessNext
    \/ ExecNext
    \/ TrimNext
    \/ HStoreNext
    \/ RecorderNext
    \/ CodeFileNext

Spec == Init /\ [][Next]_vars

\* the code runs every step it has started: a started model call answers
FairSpec ==
    /\ Spec
    /\ WF_vars(decide_stream)
    /\ WF_vars(decide_accept)
    /\ WF_vars(decide_retry)

----------------------------------------------------------------------------
(* Properties                                                              *)

\* C1: LangGraphTestAgent.run ends after at most max_iterations handler
\* dispatches, whatever the handlers return: the number of nodes the router
\* has dispatched never exceeds max_iterations.
C1_DispatchesWithinMaxIterations ==
    comp = "graph" => dispatches <= max_iterations

\* C2: every dispatch of a handler node increases the iterations counter by
\* exactly one.
C2_DispatchIncrementsIterations ==
    [][dispatches' = dispatches + 1 => iterations' = iterations + 1]_vars

\* C3: whenever iterations >= max_iterations the decision is finish, whatever
\* the rest of the state is, and no handler is dispatched; a run with
\* max_iterations = 0 returns with zero handler dispatches.
C3_CapHasPriority ==
    /\ [](gpc = "probed" /\ iterations >= max_iterations => probe = "finish")
    /\ [][comp = "graph" /\ gpc = "graph" /\ iterations >= max_iterations
            => dispatches' = dispatches /\ gpc' = "outer"]_vars
    /\ [](gpc = "returned" /\ max_iterations = 0 => dispatches = 0)

\* a run with max_iterations = 0 has returned without a dispatch
C3_Witness ==
    /\ comp = "graph"
    /\ gpc = "returned"
    /\ max_iterations = 0
    /\ dispatches = 0

C5_IllegalAnswerReprompts ==
    /\ [](dpc = "returned" =>
            /\ last_decision \in available_actions(recorded)
            /\ last_decision # "decide_next_action")
    /\ [][dpc = "check" /\ answer \notin available_actions(recorded)
            => /\ dpc' = "check"
               /\ ltail' = "correction"
               /\ last_decision' = last_decision
               /\ nmessages' = nmessages]_vars

\* the call returned after at least one correction
C5_Witness ==
    /\ dpc = "returned"
    /\ ltail = "correction"
    /\ last_decision = "run_test"

\* C6: tool_decide_next_action returns after a bounded number of correction
\* re-prompts, also when the model keeps answering with illegal actions.
C6_DecideReturns ==
    (dpc = "check") ~> (dpc = "returned")

\* C7: once a recording exists, record_user_input is not accepted as the
\* decision.
C7_RecordInputExcludedOnceRecorded ==
    dpc = "returned" /\ recorded => last_decision # "record_user_input"


\* C8: the scratch sequence is empty right after an inspection sub-task
\* (playwright_iterate_cycle, inspect_html_tool) has exited, normally or
\* through an exception of a collaborator.
C8_ScratchEmptyAfterSubtask ==
    ipc \in {"exit_ok", "exit_exc"} => local_messages = 0

InRange(t) == time_range[1] <= t /\ t <= time_range[2]

\* C9 as stated: get_html_at(t) does not raise for any store and any t with
\* start <= t <= end.
C9_InRangeNeverRaises ==
    q.op = "get_html_at" /\ q.arg # <<>> /\ InRange(q.arg[1]) => ~q.raised

\* C9 amended: on a store holding at least one document snapshot,
\* get_html_at(t) does not raise for any t with start <= t <= end.
C9_InRangeWithDocumentNeverRaises ==
    /\ q.op = "get_html_at"
    /\ q.arg # <<>>
    /\ InRange(q.arg[1])
    /\ html_snapshots # <<>>
    => ~q.raised

\* an in-range query that hits no stored timestamp was answered with a document
C9_Witness ==
    /\ q.op = "get_html_at"
    /\ q.arg # <<>>
    /\ InRange(q.arg[1])
    /\ q.arg[1] \notin Range(html_snapshots)
    /\ ~q.raised
    /\ q.val[1] = "html"

\* C10: for t < start or t > end, get_html_at(t), get_screenshot_at(t) and
\* manager[t] raise ValueError and return no snapshot, also when snapshots
\* exist.
C10_OutOfRangeRaises ==
    /\ q.op \in {"get_html_at", "get_screenshot_at", "getitem"}
    /\ q.arg # <<>>
    /\ ~InRange(q.arg[1])
    => q.raised /\ q.err = "ValueError" /\ q.val = <<>>

\* a query past the end of the range of a store that holds documents raised
C10_Witness ==
    /\ q.op = "get_html_at"
    /\ html_snapshots # <<>>
    /\ q.arg # <<>>
    /\ q.arg[1] > time_range[2]
    /\ time_range[1] <= time_range[2]
    /\ q.raised

\* the outcome part of a recorded query
Outcome(rec) == [raised |-> rec.raised, err |-> rec.err, val |-> rec.val]

\* the snapshot table a lookup operation reads
KindKeys(op) == IF op = "get_html_at" THEN html_snapshots ELSE screenshots

\* C11: a None timestamp means the end of the range: get_html_at(None) and
\* get_html_at(end) have the same outcome (the same document, or both raise),
\* and likewise get_screenshot_at(None) and get_screenshot_at(end).
C11_NoneMeansEnd ==
    /\ q.op = "get_html_at" /\ q.arg = <<>>
         => Outcome(q) = get_html_at(<<time_range[2]>>)
    /\ q.op = "get_screenshot_at" /\ q.arg = <<>>
         => Outcome(q) = get_screenshot_at(<<time_range[2]>>)

\* get_html_at(None) returned the document stored at the end of a range that
\* is longer than one instant
C11_Witness ==
    /\ q.op = "get_html_at"
    /\ q.arg = <<>>
    /\ time_range[1] < time_range[2]
    /\ ~q.raised
    /\ q.val = <<"html", time_range[2]>>

C13_TieTowardEarlier ==
    \A t1, t2 \in Range(KindKeys(q.op)) :
        /\ q.op \in {"get_html_at", "get_screenshot_at"}
        /\ q.arg # <<>>
        /\ InRange(q.arg[1])
        /\ t1 < t2
        /\ q.arg[1] - t1 = t2 - q.arg[1]
        /\ \A t \in Range(KindKeys(q.op)) : Abs(t - q.arg[1]) >= q.arg[1] - t1
        => ~q.raised /\ q.val[2] = t1

\* the later of two equidistant documents was inserted first and the earlier
\* one was returned
C13_Witness ==
    /\ q.op = "get_html_at"
    /\ q.arg # <<>>
    /\ Len(html_snapshots) = 2
    /\ html_snapshots[1] > html_snapshots[2]
    /\ q.arg[1] - html_snapshots[2] = html_snapshots[1] - q.arg[1]
    /\ ~q.raised
    /\ q.val = <<"html", html_snapshots[2]>>

\* C14 as stated: with no snapshot of the requested kind the query raises for
\* every timestamp, None included, also when the other kind is stored; a
\* store without snapshots has start = end.
C14_EmptyKindRaises ==
    /\ q.op = "get_html_at" /\ html_snapshots = <<>> => q.raised /\ q.val = <<>>
    /\ q.op = "get_screenshot_at" /\ screenshots = <<>> => q.raised /\ q.val = <<>>
    /\ comp = "store" /\ html_snapshots = <<>> /\ screenshots = <<>>
         => time_range[1] = time_range[2]

\* C14 amended: with no snapshot of the requested kind the query raises for
\* every timestamp, None included, also when the other kind is stored; a
\* store without snapshots that was constructed without an explicit
\* time_range has start = end.
C14_EmptyKindRaisesInferredRange ==
    /\ q.op = "get_html_at" /\ html_snapshots = <<>> => q.raised /\ q.val = <<>>
    /\ q.op = "get_screenshot_at" /\ screenshots = <<>> => q.raised /\ q.val = <<>>
    /\ comp = "store" /\ html_snapshots = <<>> /\ screenshots = <<>> /\ ~explicit_range
         => time_range[1] = time_range[2]

\* get_html_at(None) raised on a store that holds images but no document
C14_Witness ==
    /\ q.op = "get_html_at"
    /\ q.arg = <<>>
    /\ html_snapshots = <<>>
    /\ screenshots # <<>>
    /\ time_range[1] <= time_range[2]
    /\ q.raised

\* what the query (op, arg) answers in the current state
Answer(op, arg) ==
    CASE op = "get_html_at" -> get_html_at(arg)
      [] op = "get_screenshot_at" -> get_screenshot_at(arg)
      [] op = "getitem" -> getitem(arg)
      [] op = "validate_timestamp" -> validate_timestamp_result(arg)
      [] op = "get_stats" -> get_stats

\* C15: the store is read-only after construction: get_stats,
\* validate_timestamp, get_html_at, get_screenshot_at and manager[t] leave the
\* snapshot tables and the time range as they were, also when they raise, so
\* the answer a query got is the answer it gets again after any other
\* queries, and two get_stats calls return equal values.
C15_QueriesReadOnly ==
    /\ [][comp = "store" => UNCHANGED <<html_snapshots, screenshots, time_range>>]_vars
    /\ [](q.op # "none" => Outcome(q) = Answer(q.op, q.arg))

\* get_stats answered on a store holding documents, after construction
C15_Witness ==
    /\ q.op = "get_stats"
    /\ Len(html_snapshots) >= 1
    /\ q.val[5] = Len(html_snapshots)
    /\ q.val[4] = time_range[2] - time_range[1]

\* the keys of the loaded table a line of the given kind goes to
LoadedKeys(kind) == Range(IF kind = "html" THEN loaded_html ELSE loaded_shots)

\* an event object with a numeric time and a document or a readable image
WellFormed(line) == line.kind \in {"html", "image"} /\ line.ts # <<>>

\* C16: event timestamps are normalised to seconds before the range is
\* computed: a value above 1e17 is divided by 1e9, above 1e14 by 1e6, above
\* 1e11 by 1e3, any other is taken as it is; a trace with the timestamps 1000
\* and 1000000000000 yields the keys 1000 s and 1000000000 s, and time_range
\* is (min, max) of the normalised keys.
C16_TimestampsNormalised ==
    lpc = "built" =>
        /\ \A i \in 1..Len(archive.lines) :
              LET line == archive.lines[i]
                  r == line.ts[1]
                  divisor == IF Above(r, 17) THEN 9
                             ELSE IF Above(r, 14) THEN 6
                             ELSE IF Above(r, 11) THEN 3
                             ELSE 0
              IN  WellFormed(line) =>
                      [m |-> r.m, e |-> r.e - divisor] \in LoadedKeys(line.kind)
        /\ archive.lines = <<[kind |-> "html", ts |-> <<[m |-> 1, e |-> 3]>>],
                             [kind |-> "html", ts |-> <<[m |-> 1, e |-> 12]>>]>>
              => /\ loaded_html = <<[m |-> 1, e |-> 3], [m |-> 1, e |-> 9]>>
                 /\ loaded_range = <<[m |-> 1, e |-> 3], [m |-> 1, e |-> 9]>>
        /\ LoadedKeys("html") \cup LoadedKeys("image") # {}
              => /\ loaded_range[1] \in LoadedKeys("html") \cup LoadedKeys("image")
                 /\ loaded_range[2] \in LoadedKeys("html") \cup LoadedKeys("image")
                 /\ \A k \in LoadedKeys("html") \cup LoadedKeys("image") :
                       ~SciLess(k, loaded_range[1]) /\ ~SciLess(loaded_range[2], k)

\* the manager was built from the two-line trace with 1000 and 1000000000000
C16_Witness ==
    /\ lpc = "built"
    /\ Len(archive.lines) = 2
    /\ archive.lines[1].ts = <<[m |-> 1, e |-> 3]>>
    /\ archive.lines[2].ts = <<[m |-> 1, e |-> 12]>>
    /\ archive.lines[1].kind = "html"
    /\ archive.lines[2].kind = "html"
    /\ loaded_range = <<[m |-> 1, e |-> 3], [m |-> 1, e |-> 9]>>

\* C17: for any archive content (unreadable zip, lines that are not JSON,
\* JSON values that are no event objects, events without a timestamp,
\* unreadable image resources) the constructor does not raise, and every
\* well-formed event of the archive is in the tables of the built manager.
C17_IngestionTolerant ==
    /\ lpc # "raised"
    /\ lpc = "built" =>
          \A i \in 1..Len(archive.lines) :
              WellFormed(archive.lines[i]) =>
                  to_dt(archive.lines[i].ts[1]) \in LoadedKeys(archive.lines[i].kind)

\* C18 as stated: one inspection cycle runs at most 150 exploration rounds;
\* it returns as soon as a tool output holds the finished sentinel, and
\* otherwise after the 150th attempt with the synthesized note.
C18_ReturnsAtSentinelOrCap ==
    /\ inspection_attempt <= MAX_EXPLORATION_ATTEMPTS
    /\ cpc = "loop" => exploration_result # "finished"
    /\ cpc = "returned" =>
          \/ final_output = "tool_output" /\ exploration_result = "finished"
          \/ /\ final_output = "max_attempts"
             /\ inspection_attempt = MAX_EXPLORATION_ATTEMPTS

\* C18 amended: one inspection cycle runs at most 150 exploration rounds; it
\* returns as soon as a tool output holds the finished sentinel, or when a
\* progress reflection, asked after every 10 attempts, answers FINISH:, and
\* otherwise after the 150th attempt with the synthesized note.
C18_ReturnsAtSentinelReflectionOrCap ==
    /\ inspection_attempt <= MAX_EXPLORATION_ATTEMPTS
    /\ cpc = "loop" => exploration_result # "finished"
    /\ cpc = "returned" =>
          \/ final_output = "tool_output" /\ exploration_result = "finished"
          \/ final_output = "reflection" /\ reflection_due(inspection_attempt)
          \/ /\ final_output = "max_attempts"
             /\ inspection_attempt = MAX_EXPLORATION_ATTEMPTS

\* the cycle returned the synthesized note after 150 rounds, failed ones
\* among them
C18_Witness ==
    /\ comp = "cycle"
    /\ cpc = "returned"
    /\ final_output = "max_attempts"
    /\ inspection_attempt = MAX_EXPLORATION_ATTEMPTS
    /\ local_messages >= 1

\* C19: run_test always produces exactly one test result and does not raise:
\* an exception of the test function, or of the page capture after it, gives
\* success = false with a non-empty traceback, and success = true is reported
\* only when the test function completed without an exception.
C19_RunTestAlwaysOneResult ==
    tpc \in {"returned", "raised"} =>
        /\ tpc = "returned"
        /\ Len(last_run_result) = 1
        /\ test_case.test = "raises" \/ test_case.capture = "raises"
              => ~last_run_result[1].success /\ last_run_result[1].traceback # ""
        /\ last_run_result[1].success => test_case.test = "passes"

\* C20: the orchestrator does not swallow handler exceptions: once a
\* dispatched handler has raised, LangGraphTestAgent.run has been left by the
\* exception; it dispatches no further handler and never reports the run as
\* finished.
C20_HandlerExceptionEndsRun ==
    /\ [](failed => gpc = "raised")
    /\ [][failed => dispatches' = dispatches /\ gpc' = gpc]_vars

\* a handler raised after another handler had run, and the run ended there
C20_Witness ==
    /\ comp = "graph"
    /\ failed
    /\ gpc = "raised"
    /\ dispatches >= 2
    /\ lastRouted = "run_test"

\* C21: every invocation of the iterate command ends with a report of
\* success or failure that holds the test file path: whenever the command
\* has ended, by a return or by an exception, such a report was printed.
C21_EveryEndReportsWithPath ==
    (comp = "iterate" /\ mpc \in {"ended", "raised"})
        => (report \in {"missing", "passed", "failed"} /\ report_path)

\* C28: playwright_iterate_cycle terminates: once an inspection cycle has
\* ended, by the sentinel or by the forced stop, the outer loop ends and the
\* report is generated: after a cycle's end the function is never back at
\* the head of its loop.
C28_CycleEndEndsOuterLoop ==
    (comp = "pw" /\ final_inspection_output # <<>>)
        => ipc \in {"report", "exit_ok", "exit_exc"}

\* C27: the Decision enumeration consists of exactly the seven values
\* record_user_input, decide_next_action, ask_user, run_test, modify_code,
\* inspect and finish: every member is one of the seven, and each of the
\* seven the model answers with is a member.
C27_DecisionHasSevenValues ==
    LET seven == {"record_user_input", "decide_next_action", "ask_user",
                  "run_test", "modify_code", "inspect", "finish"}
    IN  /\ Decision \subseteq seven
        /\ (comp = "decide" /\ answer \in seven) => answer \in Decision

\* C30: in the LangGraphTestAgent router the stored run_result always refers
\* to the current test code: when modify_code has run after a failed test
\* run, the handler the router selects next is run_test, never modify_code
\* or ask_user on the stale failing result.
C30_RunTestFollowsModifyCode ==
    (comp = "graph" /\ gpc = "graph" /\ lastRouted = "modify_code"
        /\ run_result = "fail")
        => router = "run_test"

PythonBlocks ==
    {pre \o Block(<<"py">>, c) \o post :
        pre \in Margins, post \in Margins, c \in Contents}

\* the content of the one ```python block that text is
PythonBlockContent ==
    CHOOSE c \in Contents :
        \E pre \in Margins, post \in Margins : text = pre \o Block(<<"py">>, c) \o post

\* the response has two blocks; the first has a content, and carries the
\* language python or a content that does not begin with the word python
FirstOfTwo(c1) ==
    \E pre \in {<<>>, <<"x", "nl">>}, mid \in {<<"nl">>, <<"nl", "x", "nl">>},
       l1 \in Labels, l2 \in Labels, c2 \in TwoBlockContents :
        /\ text = pre \o Block(l1, c1) \o mid \o Block(l2, c2)
        /\ c1 # <<>>
        /\ (l1 = <<"py">> \/ c1[1] # "py")

IsErrorString(r) ==
    ~r.raised /\ r.kind \in {"error", "suggestions", "exception_text"}

\* C22: show and expand accept a depth only in [1,5]: a show or an expand
\* command with a depth of 6 or more, of 0 or negative is rejected with an
\* error string and produces no view of the document.
C22_DepthOutsideRangeRejected ==
    (/\ comp = "explore"
     /\ xpc # "call"
     /\ command.balanced
     /\ \/ command.verb = "show" /\ command.sel = "none"
        \/ command.verb = "expand" /\ command.sel # "none"
     /\ command.depth.kind = "int"
     /\ (command.depth.value < 1 \/ command.depth.value > 5))
        => IsErrorString(xresult)

\* C23: for expand, text and attrs a selector that matches no element, a
\* syntactically invalid one included, never raises: the command returns a
\* string with navigation suggestions and leaves the document unchanged.
C23_UnmatchedSelectorSuggests ==
    (/\ comp = "explore"
     /\ xpc # "call"
     /\ command.balanced
     /\ command.verb \in {"expand", "text", "attrs"}
     /\ command.sel \in {"nomatch", "invalid"}
     /\ command.depth.kind = "absent")
        => (~xresult.raised /\ xresult.kind = "suggestions" /\ soup = soup_before)

\* the command strings the parser has no reading for
Malformed(c) ==
    \/ ~c.balanced
    \/ c.verb \in {"", "bogus", "showall"}
    \/ c.verb \in {"expand", "text", "attrs"} /\ c.sel = "none"
    \/ c.depth.kind = "nonint"

\* C24: for every command string that is empty, has an unknown verb, lacks
\* its selector, has unbalanced quotes or a non-integer depth,
\* execute_html_exploration returns an error string instead of raising.
C24_MalformedGivesErrorString ==
    (comp = "explore" /\ xpc # "call" /\ Malformed(command))
        => IsErrorString(xresult)

\* C29: in inspect_html_tool, when the model issues the finish command (or
\* done, complete) the exploration loop ends in that round and the scratch
\* messages are moved to the durable history; every other command keeps the
\* loop running.
C29_FinishEndsLoop ==
    comp = "html" =>
        /\ last_command = "finish" => (ipc = "exit_ok" /\ local_messages = 0)
        /\ last_command = "other" => ipc # "exit_ok"

\* C31: in LangGraphTestAgent.run the iterations counter stays constant during
\* one graph invocation and is incremented once after it: while the first
\* invocation runs, has ended or has raised the counter is 0, and whenever run
\* has returned exactly one invocation has been made and iterations = 1, for
\* every max_iterations and every handler outcome.
C31_OneInvocationPerRun ==
    comp = "graph" =>
        /\ gpc \in {"graph", "outer", "raised"} => iterations = 0
        /\ gpc = "returned" => iterations = 1

\* run has returned after more handler dispatches than max_iterations
C31_Witness ==
    /\ comp = "graph"
    /\ gpc = "returned"
    /\ iterations = 1
    /\ dispatches > max_iterations
    /\ max_iterations > 0

C33_OneDurableMessagePerCall ==
    [][comp = "decide" /\ dpc \in {"call", "check"} =>
          /\ recorded' = recorded
          /\ dpc' = "returned" => nmessages' = nmessages + 1
          /\ dpc' # "returned" => /\ nmessages' = nmessages
                                  /\ last_decision' = last_decision]_vars

\* a second call has returned after a correction: two calls, two messages
C33_Witness ==
    /\ comp = "decide"
    /\ dpc = "returned"
    /\ ltail = "correction"
    /\ calls = 2
    /\ ~recorded
    /\ nmessages = 3

\* C38: when the manager was built without an explicit time range and the
\* store is not empty, start <= end and every stored document and image
\* timestamp lies in [start, end]; a query at the timestamp of a stored
\* snapshot therefore raises nothing and returns exactly that snapshot.
C38_InferredRangeCoversStore ==
    comp = "store" /\ ~explicit_range
        /\ (html_snapshots # <<>> \/ screenshots # <<>>) =>
            /\ time_range[1] <= time_range[2]
            /\ \A t \in Range(html_snapshots) \cup Range(screenshots) : InRange(t)
            /\ q.op = "get_html_at" /\ q.arg # <<>>
                  /\ q.arg[1] \in Range(html_snapshots)
                  => ~q.raised /\ q.val = <<"html", q.arg[1]>>
            /\ q.op = "get_screenshot_at" /\ q.arg # <<>>
                  /\ q.arg[1] \in Range(screenshots)
                  => ~q.raised /\ q.val = <<"image", q.arg[1]>>

\* an inferred range over two documents; the later one is asked for
C38_Witness ==
    /\ comp = "store"
    /\ ~explicit_range
    /\ Len(html_snapshots) = 2
    /\ q.op = "get_html_at"
    /\ q.arg = <<time_range[2]>>
    /\ time_range[1] < time_range[2]
    /\ q.val = <<"html", time_range[2]>>

\* C34: after a call of Agent.process, returned or raised, each AI message
\* that carries tool calls is followed by exactly one reply per tool call, in
\* call order: the ToolMessage with that call's id, or the not-found message
\* for a tool that is not registered.
C34_EveryToolCallAnswered ==
    comp = "process" /\ kpc \in {"returned", "raised"} /\ conversation # <<>> =>
        /\ Len(conversation) = 1 + conversation[1].calls
        /\ \A i \in 1..Len(tool_calls) :
              i + 1 <= Len(conversation) =>
                 conversation[i + 1] = IF tool_calls[i] = "unknown"
                                       THEN not_found_message
                                       ELSE tool_message(i)

C36_OutputsWithinMaxima ==
    comp = "trim" /\ zpc = "returned" =>
        /\ trim_output.kind = "text" => trim_output.body <= MAX_FULL_TEXT_LENGTH
        /\ trim_output.kind = "view" => trim_output.body <= MAX_VIEW_LENGTH
        /\ trim_output.kind = "suggestions" => trim_output.body <= MAX_SUGGESTIONS_LENGTH
        /\ trim_output.value <= MAX_ATTR_VALUE_LENGTH

\* C36 amended: every truncated part is its maximum plus the three characters
\* of the ellipsis at most (text 303, view 2003, suggestions 503, attribute
\* value 103), and a part within its maximum keeps its length; the length of
\* every result is at most the selector's length plus a constant, whatever
\* the size of the document.
C36_OutputsWithinMaximaPlusEllipsis ==
    comp = "trim" /\ zpc = "returned" =>
        /\ trim_output.kind = "text" =>
              /\ trim_output.body <= MAX_FULL_TEXT_LENGTH + 3
              /\ trim_input.body <= MAX_FULL_TEXT_LENGTH => trim_output.body = trim_input.body
        /\ trim_output.kind = "view" =>
              /\ trim_output.body <= MAX_VIEW_LENGTH + 3
              /\ trim_input.body <= MAX_VIEW_LENGTH => trim_output.body = trim_input.body
        /\ trim_output.kind = "suggestions" =>
              /\ trim_output.body <= MAX_SUGGESTIONS_LENGTH + 3
              /\ trim_input.body <= MAX_SUGGESTIONS_LENGTH => trim_output.body = trim_input.body
        /\ trim_output.value <= MAX_ATTR_VALUE_LENGTH + 3
        /\ ResultLength(trim_output) <= trim_input.selector + 103 + MAX_VIEW_LENGTH + 3

\* the text command on an element whose text is far longer than the limit
C36_Witness ==
    /\ comp = "trim"
    /\ zpc = "returned"
    /\ trim_input.verb = "text"
    /\ trim_input.found
    /\ trim_input.body >= 10000
    /\ trim_output.body = MAX_FULL_TEXT_LENGTH + 3

\* the validated timestamp of the last query of the html_inspect manager
HQueryTs == IF hq.arg = <<>> THEN hs_range[2] ELSE hq.arg[1]

HInRange == hs_range[1] <= HQueryTs /\ HQueryTs <= hs_range[2]

\* the order of C37 for one kind of snapshot
HFloorOrder(keys, latest) ==
    LET earlier == {t \in keys : t <= HQueryTs}
    IN  /\ earlier # {} =>
              /\ ~hq.raised
              /\ hq.src = "snapshot"
              /\ hq.at \in earlier
              /\ \A t \in earlier : t <= hq.at
              /\ HQueryTs \in keys => hq.at = HQueryTs
        /\ earlier = {} /\ latest => ~hq.raised /\ hq.src = "latest"
        /\ earlier = {} /\ ~latest => hq.raised
        /\ hq.src = "snapshot" => hq.at <= HQueryTs

\* C37: in the html_inspect RecordingManager, get_html_at(ts) for ts in range
\* returns the snapshot stored at ts if there is one, else the snapshot with
\* the greatest timestamp <= ts, else the latest end-of-run HTML, and raises
\* only when none of the three exists; no snapshot later than ts is returned;
\* get_screenshot_at follows the same order for images.
C37_ExactThenEarlierThenLatest ==
    comp = "hstore" /\ HInRange =>
        /\ hq.op = "get_html_at" => HFloorOrder(hs_html, hs_latest.html)
        /\ hq.op = "get_screenshot_at" => HFloorOrder(hs_shots, hs_latest.screenshot)

\* a document is asked for between two stored ones: the earlier one is given
C37_Witness ==
    /\ comp = "hstore"
    /\ hq.op = "get_html_at"
    /\ hs_html = {0, 2}
    /\ hq.arg = <<1>>
    /\ hq.src = "snapshot"
    /\ hq.at = 0

\* the user actions held by self.actions, in order
RECURSIVE UserActions(_)
UserActions(seq) ==
    IF seq = <<>> THEN <<>>
    ELSE IF Head(seq) = 0 THEN UserActions(Tail(seq))
    ELSE <<Head(seq)>> \o UserActions(Tail(seq))

\* C39: the polling loop loses and duplicates nothing: once a poll has
\* emptied the page's buffer, every action pushed so far is in self.actions
\* exactly once and in push order, for every interleaving of user actions,
\* navigation events and polls.
C39_NoActionLostOrDuplicated ==
    comp = "recorder" /\ bpc = "sleep" /\ trestoActions = <<>> =>
        UserActions(actions) = [k \in 1..pushed |-> k]

\* C40: test code written through the current_test_code setter and read back
\* through the getter is the written code with its surrounding white space
\* trimmed and nothing of the generated header, for every instruction text,
\* those with blank lines included.
C40_WriteThenReadGivesCode ==
    comp = "codefile" /\ ypc = "done" => read_code = strip(written_code)

====
